---- MODULE Spec2Model ----
(***************************************************************************)
(* The NPC context manager (src/unnamed/part_004, the module the routes    *)
(* of src/routes/npcRoutes.js load as ../utils/contextManager): the        *)
(* in-memory entity store, the relationship queries over it, and the       *)
(* store calls the HTTP routes make.                                       *)
(*                                                                         *)
(* Representation.                                                         *)
(*   - npcContexts is the JavaScript Map of the module: a sequence of      *)
(*     entries [id, metadata, conversations] in insertion order (a Map     *)
(*     iterates in insertion order; set() on a present key keeps its       *)
(*     place; delete() removes the entry).                                 *)
(*   - A JavaScript object (metadata, a payload, an update) is a function  *)
(*     from its own keys to values; an absent key is absent from DOMAIN.   *)
(*   - A relationships object is a sequence of [name, label] pairs in key  *)
(*     insertion order (Object.keys/Object.entries order), names distinct. *)
(*   - Strings are TLA+ strings; the store's ids are the strings of UUIDS  *)
(*     (they hold a '-', as a UUID does), handed out in order by           *)
(*     crypto.randomUUID().                                                *)
(*   - A message is [role, content]; its wall-clock timestamp is left out. *)
(***************************************************************************)
EXTENDS Integers, Sequences, FiniteSets, TLC

VARIABLES
  npcContexts,   \* the Map npcId -> {metadata, conversations}
  nextUuid,      \* index in UUIDS of the id crypto.randomUUID() returns next
  result,        \* the last call: [op, args, value]
  timers,        \* the periodic jobs whose setInterval timer is armed
  turns          \* the chat turns: where each is, and what it read before its AI call

vars == <<npcContexts, nextUuid, result, timers, turns>>

(***************************************************************************)
(* Bounds and input alphabets.                                             *)
(***************************************************************************)
MaxIds == 2        \* ids generated in one run
MaxConv == 1       \* messages kept per conversation list in a run

UUIDS == <<"u-1", "u-2", "u-3", "u-4", "u-5", "u-6">>

UNDEFINED == "<undefined>"    \* JavaScript undefined, where a label is read
NoResult == [op |-> "none", args |-> <<>>, value |-> FALSE]

NULL == "<null>"              \* JavaScript null, where a name is read

\* the two periodic jobs started when the module loads (lines 1809-1816)
Jobs == {"logging", "discovery"}

\* the chat turns that can be in flight together
TurnIds == {"turn-a", "turn-b"}

\* a turn that has not started.  pc is the position of the request handler
\* (idle, awaiting the language model, done), npcId the actualNpcId it
\* resolved, snapshot the npcMetadata object it read before the call;
\* overlapped, status, reply, wrote and targets record what the turn did:
\* whether another turn on the same NPC was awaiting together with it, the
\* HTTP status it answered, the reply it stored, the metadata it passed to
\* updateNpcMetadata and the relationship keys it set with their labels;
\* issued is the number of ids generated when the turn read the NPC;
\* playerAt and replyAt are the places in the conversation list where the
\* turn's two messages were appended, 0 for a message not appended.
IdleTurn ==
  [pc |-> "idle", npcId |-> "", snapshot |-> <<>>, overlapped |-> FALSE,
   status |-> 0, reply |-> "", wrote |-> <<>>, targets |-> <<>>, issued |-> 0,
   playerAt |-> 0, replyAt |-> 0]

(***************************************************************************)
(* String helpers.                                                         *)
(***************************************************************************)
\* String.prototype.toLowerCase on the strings of the model.
toLowerCase(s) ==
  CASE s = "Mayor" -> "mayor"
    [] s = "MAYOR" -> "mayor"
    [] s = "Smith" -> "smith"
    [] s = "Ghost" -> "ghost"
    [] s = "GHOST" -> "ghost"
    [] s = "Unknown NPC (u-1)" -> "unknown npc (u-1)"
    [] s = "Unknown NPC (u-2)" -> "unknown npc (u-2)"
    [] s = "Unknown NPC (u-3)" -> "unknown npc (u-3)"
    [] s = "Unknown NPC (u-4)" -> "unknown npc (u-4)"
    [] s = "Unknown NPC (u-5)" -> "unknown npc (u-5)"
    [] s = "Unknown NPC (u-6)" -> "unknown npc (u-6)"
    [] OTHER -> s

\* s.includes('-'): of the model's strings only the ids hold a '-'.
includesDash(s) == \E i \in 1..Len(UUIDS) : s = UUIDS[i]

\* JavaScript truthiness of a label read from a relationships object.
Truthy(v) == v # UNDEFINED /\ v # ""

(***************************************************************************)
(* Objects.                                                                *)
(***************************************************************************)
\* { ...a, ...b }
Spread(a, b) ==
  [k \in (DOMAIN a) \cup (DOMAIN b) |-> IF k \in DOMAIN b THEN b[k] ELSE a[k]]

\* Object.keys(rel) of a relationships object.
RelKeys(rel) == [i \in 1..Len(rel) |-> rel[i].name]

RelHas(rel, name) == \E i \in 1..Len(rel) : rel[i].name = name

\* rel[name]
RelGet(rel, name) ==
  IF RelHas(rel, name)
    THEN rel[CHOOSE i \in 1..Len(rel) : rel[i].name = name].label
    ELSE UNDEFINED

\* rel[name] = label
RelSet(rel, name, label) ==
  IF RelHas(rel, name)
    THEN [i \in 1..Len(rel) |->
            IF rel[i].name = name THEN [name |-> name, label |-> label] ELSE rel[i]]
    ELSE Append(rel, [name |-> name, label |-> label])

DefaultPlayerRelationship ==
  [status |-> "neutral", affinity |-> 50, trust |-> 50, respect |-> 50,
   history |-> <<>>]

(***************************************************************************)
(* The store.                                                              *)
(***************************************************************************)
\* npcContexts.has(npcId)
Has(ctx, npcId) == \E i \in 1..Len(ctx) : ctx[i].id = npcId

\* npcContexts.get(npcId), for a present key
Get(ctx, npcId) == ctx[CHOOSE i \in 1..Len(ctx) : ctx[i].id = npcId]

\* npcContexts.set(npcId, entry)
Set(ctx, npcId, entry) ==
  IF Has(ctx, npcId)
    THEN [i \in 1..Len(ctx) |-> IF ctx[i].id = npcId THEN entry ELSE ctx[i]]
    ELSE Append(ctx, entry)

\* npcContexts.delete(npcId)
Delete(ctx, npcId) == SelectSeq(ctx, LAMBDA e : e.id # npcId)

getAllNpcIds(ctx) == [i \in 1..Len(ctx) |-> ctx[i].id]

StoredIds(ctx) == {ctx[i].id : i \in 1..Len(ctx)}

\* getNpcMetadata(npcId): <<metadata>>, or <<>> for null
getNpcMetadata(ctx, npcId) ==
  IF Has(ctx, npcId) THEN <<Get(ctx, npcId).metadata>> ELSE <<>>

\* findNpcByName(name): the first entry, in Map order, whose name matches
\* case-insensitively, as <<{id, ...metadata}>>; <<>> is null.
findNpcByName(ctx, name) ==
  LET hits == {i \in 1..Len(ctx) :
                 toLowerCase(ctx[i].metadata.name) = toLowerCase(name)}
  IN IF hits = {} THEN <<>>
     ELSE LET i == CHOOSE j \in hits : \A k \in hits : j <= k
          IN <<Spread([id |-> ctx[i].id], ctx[i].metadata)>>

\* removeNpc(npcId): the store afterwards
removeNpc(ctx, npcId) == IF Has(ctx, npcId) THEN Delete(ctx, npcId) ELSE ctx

\* initializeNpc, the part that normalises the payload (lines 56-714), for
\* payloads whose relationships field is absent or a plain name -> label
\* object and that have no relationship, inventory or skills field.
enhanceNpcData(npcData) ==
  LET d1 == IF "player_relationship" \in DOMAIN npcData
              THEN npcData
              ELSE Spread(npcData, [player_relationship |-> DefaultPlayerRelationship])
      d2 == IF "relationships" \in DOMAIN d1
              THEN d1
              ELSE Spread(d1, [relationships |-> <<>>])
  IN Spread(d2, [inventory |-> <<>>, skills |-> <<>>])

\* initializeNpc(npcData): the store afterwards, npcId being the new id
initializeNpc(ctx, npcId, npcData) ==
  LET existingNpc == findNpcByName(ctx, npcData.name)
      ctx1 == IF existingNpc # <<>> THEN removeNpc(ctx, existingNpc[1].id) ELSE ctx
  IN Set(ctx1, npcId,
         [id |-> npcId, metadata |-> enhanceNpcData(npcData), conversations |-> <<>>])

\* an update that would store the updates in place of the metadata
updateNpcMetadataReplacing(ctx, npcId, updates) ==
  IF ~Has(ctx, npcId) THEN ctx
  ELSE Set(ctx, npcId, [Get(ctx, npcId) EXCEPT !.metadata = updates])

\* updateNpcMetadata(npcId, updates): the store afterwards
updateNpcMetadata(ctx, npcId, updates) ==
  IF ~Has(ctx, npcId) THEN ctx
  ELSE LET npcContext == Get(ctx, npcId)
       IN Set(ctx, npcId,
              [npcContext EXCEPT !.metadata = Spread(npcContext.metadata, updates)])

\* an addMessage that would open an entry for an id it does not find
addMessageCreating(ctx, npcId, role, content) ==
  IF ~Has(ctx, npcId)
    THEN Append(ctx, [id |-> npcId, metadata |-> [name |-> npcId],
                      conversations |-> <<[role |-> role, content |-> content]>>])
  ELSE LET npcContext == Get(ctx, npcId)
       IN Set(ctx, npcId,
              [npcContext EXCEPT !.conversations =
                 Append(@, [role |-> role, content |-> content])])

\* an addMessage that would put the message at the head of the list
addMessageAtHead(ctx, npcId, role, content) ==
  IF ~Has(ctx, npcId) THEN ctx
  ELSE Set(ctx, npcId,
           [Get(ctx, npcId) EXCEPT !.conversations =
              <<[role |-> role, content |-> content]>> \o @])

\* addMessage(npcId, role, content): the store afterwards
addMessage(ctx, npcId, role, content) ==
  IF ~Has(ctx, npcId) THEN ctx
  ELSE LET npcContext == Get(ctx, npcId)
       IN Set(ctx, npcId,
              [npcContext EXCEPT !.conversations =
                 Append(@, [role |-> role, content |-> content])])

\* getConversationHistory(npcId, limit): <<the list>>, the last limit
\* entries when limit > 0, or <<>> for null
getConversationHistory(ctx, npcId, limit) ==
  IF ~Has(ctx, npcId) THEN <<>>
  ELSE IF limit > 0 /\ limit < Len(Get(ctx, npcId).conversations)
    THEN <<SubSeq(Get(ctx, npcId).conversations,
                  Len(Get(ctx, npcId).conversations) - limit + 1,
                  Len(Get(ctx, npcId).conversations))>>
  ELSE <<Get(ctx, npcId).conversations>>

\* clearConversationHistory(npcId): the store afterwards
clearConversationHistory(ctx, npcId) ==
  IF ~Has(ctx, npcId) THEN ctx
  ELSE Set(ctx, npcId, [Get(ctx, npcId) EXCEPT !.conversations = <<>>])

\* an update that would set the edge back from the second NPC as well
updateNpcRelationshipBothWays(ctx, npcId1, npcId2OrName, relationshipStatus) ==
  IF ~Has(ctx, npcId1) THEN ctx
  ELSE [i \in 1..Len(ctx) |->
          IF ctx[i].id = npcId1
               \/ toLowerCase(ctx[i].metadata.name) = toLowerCase(npcId2OrName)
            THEN [ctx[i] EXCEPT !.metadata =
                    Spread(@, [relationships |->
                                 <<[name |-> npcId2OrName,
                                    label |-> relationshipStatus]>>])]
            ELSE ctx[i]]

\* updateNpcRelationship(npcId1, npcId2OrName, relationshipStatus): the store
\* afterwards.  The name the edge is keyed by is the stored name of the
\* second NPC when it resolves, the identifier as given when it does not.
updateNpcRelationship(ctx, npcId1, npcId2OrName, relationshipStatus) ==
  IF ~Has(ctx, npcId1) THEN ctx
  ELSE LET npc1 == getNpcMetadata(ctx, npcId1)[1]
           npc2 == findNpcByName(ctx, npcId2OrName)
           npc2Name ==
             IF ~includesDash(npcId2OrName)
               THEN IF npc2 # <<>> THEN npc2[1].name ELSE npcId2OrName
               ELSE IF getNpcMetadata(ctx, npcId2OrName) # <<>>
                      THEN getNpcMetadata(ctx, npcId2OrName)[1].name
                      ELSE npcId2OrName
           relationships ==
             IF "relationships" \in DOMAIN npc1 THEN npc1.relationships ELSE <<>>
       IN updateNpcMetadata(ctx, npcId1,
            [relationships |-> RelSet(relationships, npc2Name, relationshipStatus)])

\* initializeNpcs(npcsData): the store after the forEach over the batch,
\* the k-th element taking the id UUIDS[first + k - 1].
RECURSIVE initializeNpcs(_, _, _)
initializeNpcs(ctx, first, npcsData) ==
  IF npcsData = <<>> THEN ctx
  ELSE initializeNpcs(initializeNpc(ctx, UUIDS[first], Head(npcsData)),
                      first + 1, Tail(npcsData))

(***************************************************************************)
(* The chat turn.  The data of a language-model answer that parses as JSON  *)
(* is a record [reply, metadata]; a metadata that is absent is {} after     *)
(* formatSuccessResponse, which <<>>, the record without fields, stands     *)
(* for.  An answer without reply, or that does not parse, has reply "".     *)
(***************************************************************************)
\* a formatting that would leave the metadata of the answer as it is
formatSuccessResponseAsAnswered(parsedContent, npcData) ==
  [reply |-> parsedContent.reply, metadata |-> parsedContent.metadata]

\* formatSuccessResponse(requestId, aiResponse, isStreaming, responseTime,
\* npcData): the reply and the metadata of response.data
formatSuccessResponse(parsedContent, npcData) ==
  [reply |-> parsedContent.reply,
   metadata |->
     IF "player_relationship" \in DOMAIN npcData
       THEN Spread(parsedContent.metadata,
                   [player_relationship |-> npcData.player_relationship])
       ELSE parsedContent.metadata]

\* updateNpcRelationship, lines 1841-1862: the name the edge is keyed by
npc2NameOf(ctx, npcId2OrName) ==
  IF ~includesDash(npcId2OrName)
    THEN IF findNpcByName(ctx, npcId2OrName) # <<>>
           THEN findNpcByName(ctx, npcId2OrName)[1].name
           ELSE npcId2OrName
    ELSE IF getNpcMetadata(ctx, npcId2OrName) # <<>>
           THEN getNpcMetadata(ctx, npcId2OrName)[1].name
           ELSE npcId2OrName

\* the forEach over Object.entries(metadata.npc_relationships) of the chat
\* route, after its first n entries
RECURSIVE updateNpcRelationships(_, _, _, _)
updateNpcRelationships(ctx, npcId, rel, n) ==
  IF n = 0 THEN ctx
  ELSE updateNpcRelationship(updateNpcRelationships(ctx, npcId, rel, n - 1),
                             npcId, rel[n].name, rel[n].label)

\* the metadata and relationship writes of a turn
metadataWrites(ctx, actualNpcId, metadata) ==
  IF "npc_relationships" \in DOMAIN metadata
    THEN updateNpcRelationships(updateNpcMetadata(ctx, actualNpcId, metadata),
                                actualNpcId, metadata.npc_relationships,
                                Len(metadata.npc_relationships))
    ELSE updateNpcMetadata(ctx, actualNpcId, metadata)

\* writes of a turn that would store the metadata of an answer without reply
chatWritesIgnoringReply(ctx, actualNpcId, data) ==
  IF data.reply = "" THEN metadataWrites(ctx, actualNpcId, data.metadata)
  ELSE addMessage(metadataWrites(ctx, actualNpcId, data.metadata),
                  actualNpcId, "npc", data.reply)

\* writes of a turn that would keep what the store already holds
chatWritesKeeping(ctx, actualNpcId, data) ==
  IF data.reply = "" \/ ~Has(ctx, actualNpcId) THEN ctx
  ELSE addMessage(
         updateNpcMetadata(ctx, actualNpcId,
                           Spread(data.metadata, Get(ctx, actualNpcId).metadata)),
         actualNpcId, "npc", data.reply)

\* the chat route after the language-model call (lines 815-849): the store
\* after the writes of the turn
chatWrites(ctx, actualNpcId, data) ==
  IF data.reply = "" THEN ctx
  ELSE addMessage(metadataWrites(ctx, actualNpcId, data.metadata),
                  actualNpcId, "npc", data.reply)

(***************************************************************************)
(* The relationship queries.  null is <<>>: an object that may be null is  *)
(* a sequence of at most one element.  A value the code computes once and  *)
(* reads several times is the argument of an operator of its own.          *)
(***************************************************************************)
\* metadata?.key || ''
FieldOrEmpty(md, key) == IF md # <<>> /\ key \in DOMAIN md[1] THEN md[1][key] ELSE ""

\* the case-insensitive search of getNpcRelationship, run when the exact
\* lookup gave a falsy value: the label of the first key, in key order, that
\* equals name ignoring case, and the exact value when there is none
relationFromSearch(rel, name, exact) ==
  IF Truthy(exact) \/ ~\E i \in 1..Len(rel) : toLowerCase(rel[i].name) = toLowerCase(name)
    THEN exact
    ELSE rel[CHOOSE i \in 1..Len(rel) :
               /\ toLowerCase(rel[i].name) = toLowerCase(name)
               /\ \A k \in 1..(i - 1) : toLowerCase(rel[k].name) # toLowerCase(name)].label

\* npc.relationships && npc.relationships[name], then the search above
relationFrom(npc, name) ==
  IF "relationships" \notin DOMAIN npc THEN UNDEFINED
  ELSE relationFromSearch(npc.relationships, name, RelGet(npc.relationships, name))

\* the placeholder getNpcRelationship makes for an identifier that resolves
\* to no NPC
placeholderNpc(npcIdOrName) ==
  [id |-> <<>>,
   name |-> IF ~includesDash(npcIdOrName) THEN npcIdOrName
            ELSE "Unknown NPC (" \o npcIdOrName \o ")",
   relationships |-> <<>>,
   is_placeholder |-> TRUE]

\* getNpcMetadata(npcByName.id) when findNpcByName found an NPC, else null
metadataOfFound(ctx, npcByName) ==
  IF npcByName # <<>> THEN getNpcMetadata(ctx, npcByName[1].id) ELSE <<>>

\* an identifier resolved by id, then by name: <<metadata>> or <<>>
resolveNpc(ctx, npcIdOrName) ==
  IF Has(ctx, npcIdOrName) THEN getNpcMetadata(ctx, npcIdOrName)
  ELSE metadataOfFound(ctx, findNpcByName(ctx, npcIdOrName))

isPlaceholder(npc) == "is_placeholder" \in DOMAIN npc /\ npc.is_placeholder

\* npc.id || identifier
idOr(npc, npcIdOrName) ==
  IF "id" \in DOMAIN npc /\ npc.id # <<>> /\ npc.id # "" THEN npc.id ELSE npcIdOrName

\* the object getNpcRelationship returns, from the two labels it read
relationshipRecord(npc1, npc2, npcId1OrName, npcId2OrName, relationFromNpc1, relationFromNpc2) ==
  [npc1_id |-> idOr(npc1, npcId1OrName),
   npc2_id |-> idOr(npc2, npcId2OrName),
   npc1_name |-> npc1.name,
   npc2_name |-> npc2.name,
   npc1_to_npc2 |-> IF Truthy(relationFromNpc1) THEN relationFromNpc1 ELSE "none",
   npc2_to_npc1 |-> IF Truthy(relationFromNpc2) THEN relationFromNpc2 ELSE "none",
   is_mutual |-> relationFromNpc1 = relationFromNpc2 /\ relationFromNpc1 # UNDEFINED,
   is_conflicting |-> relationFromNpc1 # relationFromNpc2
                        /\ relationFromNpc1 # UNDEFINED
                        /\ relationFromNpc2 # UNDEFINED,
   npc1_exists |-> ~isPlaceholder(npc1),
   npc2_exists |-> ~isPlaceholder(npc2),
   is_future_relationship |-> isPlaceholder(npc1) \/ isPlaceholder(npc2)]

\* a relationship that would read the first NPC's label only
relationshipOfOneSided(npc1, npc2, npcId1OrName, npcId2OrName) ==
  relationshipRecord(npc1, npc2, npcId1OrName, npcId2OrName,
                     relationFrom(npc1, npc2.name), UNDEFINED)

\* getNpcRelationship from line 967 on: both NPCs resolved or placeholders
relationshipOf(npc1, npc2, npcId1OrName, npcId2OrName) ==
  relationshipRecord(npc1, npc2, npcId1OrName, npcId2OrName,
                     relationFrom(npc1, npc2.name), relationFrom(npc2, npc1.name))

\* getNpcRelationship from line 921 on: npc1 and npc2 are <<metadata>> or <<>>
relationshipOfResolved(npc1, npc2, npcId1OrName, npcId2OrName, includeFutureRelationships) ==
  IF (npc1 = <<>> \/ npc2 = <<>>) /\ ~includeFutureRelationships
    THEN [status |-> "unknown",
          error |-> "One or both NPCs not found",
          npc1_found |-> npc1 # <<>>,
          npc2_found |-> npc2 # <<>>,
          npc1_identifier |-> npcId1OrName,
          npc2_identifier |-> npcId2OrName]
    ELSE relationshipOf(
           IF npc1 = <<>> THEN placeholderNpc(npcId1OrName) ELSE npc1[1],
           IF npc2 = <<>> THEN placeholderNpc(npcId2OrName) ELSE npc2[1],
           npcId1OrName, npcId2OrName)

\* getNpcRelationship(npcId1OrName, npcId2OrName, includeFutureRelationships)
getNpcRelationship(ctx, npcId1OrName, npcId2OrName, includeFutureRelationships) ==
  relationshipOfResolved(resolveNpc(ctx, npcId1OrName), resolveNpc(ctx, npcId2OrName),
                         npcId1OrName, npcId2OrName, includeFutureRelationships)

\* relationship.error
hasError(r) == "error" \in DOMAIN r

\* hasDirectRelationship of discoverNpcRelationships
hasDirectRelationship(relationship) ==
  relationship.npc1_to_npc2 # "none" \/ relationship.npc2_to_npc1 # "none"

\* indirectTriples with the two labels of each triple exchanged
indirectTriplesSwapped(targetRel, otherRel, commonConnections) ==
  [k \in 1..Len(commonConnections) |->
     [through |-> commonConnections[k],
      target_to_common |-> RelGet(otherRel, commonConnections[k]),
      other_to_common |-> RelGet(targetRel, commonConnections[k])]]

\* commonConnections.map(...): one triple per common connection
indirectTriples(targetRel, otherRel, commonConnections) ==
  [k \in 1..Len(commonConnections) |->
     [through |-> commonConnections[k],
      target_to_common |-> RelGet(targetRel, commonConnections[k]),
      other_to_common |-> RelGet(otherRel, commonConnections[k])]]

\* indirectRelationshipsOf without the test of hasDirectRelationship
indirectRelationshipsIgnoringDirect(targetNpc, otherNpc, hasDirect) ==
  IF "relationships" \in DOMAIN targetNpc /\ "relationships" \in DOMAIN otherNpc
    THEN indirectTriples(
           targetNpc.relationships, otherNpc.relationships,
           SelectSeq(RelKeys(targetNpc.relationships),
                     LAMBDA name : RelHas(otherNpc.relationships, name)))
    ELSE <<>>

\* the indirect relationships discoverNpcRelationships computes for a pair:
\* none when the pair has a direct relationship, else one triple per key of
\* the target's relationships that is a key of the other's
indirectRelationshipsOf(targetNpc, otherNpc, hasDirect) ==
  IF hasDirect THEN <<>>
  ELSE IF "relationships" \in DOMAIN targetNpc /\ "relationships" \in DOMAIN otherNpc
    THEN indirectTriples(
           targetNpc.relationships, otherNpc.relationships,
           SelectSeq(RelKeys(targetNpc.relationships),
                     LAMBDA name : RelHas(otherNpc.relationships, name)))
    ELSE <<>>

\* relationshipEntryOf with the entry named after the first key of the
\* target's relationships, where it has one, not after the other NPC
relationshipEntryNamedByEdge(targetNpc, otherNpcId, otherNpc, relationship) ==
  [npc_id |-> otherNpcId,
   npc_name |-> IF "relationships" \in DOMAIN targetNpc /\ targetNpc.relationships # <<>>
                  THEN targetNpc.relationships[1].name
                  ELSE otherNpc.name,
   direct_relationship |->
     IF relationship.npc1_to_npc2 # "none" \/ relationship.npc2_to_npc1 # "none"
       THEN <<[target_to_other |-> relationship.npc1_to_npc2,
               other_to_target |-> relationship.npc2_to_npc1,
               is_mutual |-> relationship.is_mutual,
               is_conflicting |-> relationship.is_conflicting]>>
       ELSE <<>>,
   indirect_relationships |-> <<>>]

\* the relationshipEntry discoverNpcRelationships pushes for one other NPC,
\* from the relationship it got (null is <<>>, for direct_relationship and
\* for indirect_relationships)
relationshipEntryOf(targetNpc, otherNpcId, otherNpc, relationship) ==
  [npc_id |-> otherNpcId,
   npc_name |-> otherNpc.name,
   direct_relationship |->
     IF hasDirectRelationship(relationship)
       THEN <<[target_to_other |-> relationship.npc1_to_npc2,
               other_to_target |-> relationship.npc2_to_npc1,
               is_mutual |-> relationship.is_mutual,
               is_conflicting |-> relationship.is_conflicting]>>
       ELSE <<>>,
   indirect_relationships |->
     indirectRelationshipsOf(targetNpc, otherNpc, hasDirectRelationship(relationship))]

\* one pass of the loop of discoverNpcRelationships
relationshipEntry(ctx, targetNpc, npcId, otherNpcId) ==
  relationshipEntryOf(targetNpc, otherNpcId, getNpcMetadata(ctx, otherNpcId)[1],
                      getNpcRelationship(ctx, npcId, otherNpcId, TRUE))

\* a result object whose total_npcs counts the target NPC too
discoveryResultCountingSelf(npcId, targetNpcName, allNpcIds, discovered) ==
  [status |-> "success",
   npc_id |-> npcId,
   npc_name |-> targetNpcName,
   stats |->
     [total_npcs |-> Len(allNpcIds),
      direct_relationships |->
        Cardinality({k \in 1..Len(discovered) :
                       discovered[k].direct_relationship # <<>>}),
      indirect_relationships |->
        Cardinality({k \in 1..Len(discovered) :
                       discovered[k].indirect_relationships # <<>>}),
      mutual_relationships |->
        Cardinality({k \in 1..Len(discovered) :
                       /\ discovered[k].direct_relationship # <<>>
                       /\ discovered[k].direct_relationship[1].is_mutual}),
      conflicting_relationships |->
        Cardinality({k \in 1..Len(discovered) :
                       /\ discovered[k].direct_relationship # <<>>
                       /\ discovered[k].direct_relationship[1].is_conflicting})],
   discovered_relationships |-> discovered]

\* the result object of discoverNpcRelationships, from the entries pushed:
\* each counter of stats counts the entries that incremented it
discoveryResult(npcId, targetNpcName, allNpcIds, discovered) ==
  [status |-> "success",
   npc_id |-> npcId,
   npc_name |-> targetNpcName,
   stats |->
     [total_npcs |-> Len(allNpcIds) - 1,
      direct_relationships |->
        Cardinality({k \in 1..Len(discovered) :
                       discovered[k].direct_relationship # <<>>}),
      indirect_relationships |->
        Cardinality({k \in 1..Len(discovered) :
                       discovered[k].indirect_relationships # <<>>}),
      mutual_relationships |->
        Cardinality({k \in 1..Len(discovered) :
                       /\ discovered[k].direct_relationship # <<>>
                       /\ discovered[k].direct_relationship[1].is_mutual}),
      conflicting_relationships |->
        Cardinality({k \in 1..Len(discovered) :
                       /\ discovered[k].direct_relationship # <<>>
                       /\ discovered[k].direct_relationship[1].is_conflicting})],
   discovered_relationships |-> discovered]

\* discoverNpcRelationships from line 1046 on: targetNpc is <<metadata>> or
\* <<>>, npcId the identifier after the lookup by name, others the ids of
\* getAllNpcIds() but npcId
discoverFor(ctx, targetNpc, npcId, others) ==
  IF targetNpc = <<>>
    THEN [status |-> "error",
          message |-> "NPC with identifier " \o npcId \o " not found",
          discovered_relationships |-> 0]
    ELSE discoveryResult(
           npcId, targetNpc[1].name, getAllNpcIds(ctx),
           [k \in 1..Len(others) |->
              relationshipEntry(ctx, targetNpc[1], npcId, others[k])])

\* discoverNpcRelationships from line 1024 on, npcByName being what
\* findNpcByName(npcIdOrName) returns
discoverByName(ctx, npcIdOrName, npcByName) ==
  IF npcByName = <<>> THEN discoverFor(ctx, <<>>, npcIdOrName, <<>>)
  ELSE discoverFor(ctx, getNpcMetadata(ctx, npcByName[1].id), npcByName[1].id,
                   SelectSeq(getAllNpcIds(ctx), LAMBDA id : id # npcByName[1].id))

\* discoverNpcRelationships(npcIdOrName)
discoverNpcRelationships(ctx, npcIdOrName) ==
  IF Has(ctx, npcIdOrName)
    THEN discoverFor(ctx, getNpcMetadata(ctx, npcIdOrName), npcIdOrName,
                     SelectSeq(getAllNpcIds(ctx), LAMBDA id : id # npcIdOrName))
    ELSE discoverByName(ctx, npcIdOrName, findNpcByName(ctx, npcIdOrName))

\* the npcContext getNpcRelationshipNetwork builds for a discovered entry
relatedNpcContext(relName, relatedNpcMetadata) ==
  [name |-> relName,
   description |-> FieldOrEmpty(relatedNpcMetadata, "description"),
   personality |-> FieldOrEmpty(relatedNpcMetadata, "personality"),
   faction |-> FieldOrEmpty(relatedNpcMetadata, "faction"),
   location |-> FieldOrEmpty(relatedNpcMetadata, "location"),
   currentState |-> FieldOrEmpty(relatedNpcMetadata, "currentState")]

\* the commonNpcContext of an indirect relationship, commonNpcMetadata being
\* <<>> when the through name resolves to no NPC: {} is then <<>>
commonNpcContextOf(commonNpc, commonNpcMetadata) ==
  IF commonNpc = <<>> THEN <<>>
  ELSE <<[description |-> FieldOrEmpty(commonNpcMetadata, "description"),
          personality |-> FieldOrEmpty(commonNpcMetadata, "personality"),
          faction |-> FieldOrEmpty(commonNpcMetadata, "faction"),
          location |-> FieldOrEmpty(commonNpcMetadata, "location")]>>

throughContext(ctx, through) ==
  commonNpcContextOf(findNpcByName(ctx, through),
                     metadataOfFound(ctx, findNpcByName(ctx, through)))

\* one pass of the forEach of getNpcRelationshipNetwork: what the entry rel
\* adds to directRelationships, indirectRelationships, futureRelationships
networkItems(ctx, rel, npcContext, isFutureRelationship) ==
  IF rel.direct_relationship # <<>>
    THEN [direct |->
            IF isFutureRelationship THEN <<>>
            ELSE <<Spread(npcContext,
                          Spread(rel.direct_relationship[1], [is_future |-> FALSE]))>>,
          indirect |-> <<>>,
          future |->
            IF isFutureRelationship
              THEN <<Spread(npcContext,
                            Spread(rel.direct_relationship[1], [is_future |-> TRUE]))>>
              ELSE <<>>]
    ELSE [direct |-> <<>>,
          indirect |->
            [k \in 1..Len(rel.indirect_relationships) |->
               Spread(npcContext,
                      Spread(rel.indirect_relationships[k],
                             [through_context |->
                                throughContext(ctx, rel.indirect_relationships[k].through)]))],
          future |-> <<>>]

networkItemsOf(ctx, rel) ==
  networkItems(ctx, rel,
               relatedNpcContext(rel.npc_name, getNpcMetadata(ctx, rel.npc_id)),
               getNpcMetadata(ctx, rel.npc_id) = <<>>)

\* the three arrays after one more pass of the forEach
pushItems(before, items) ==
  [direct_relationships |-> before.direct_relationships \o items.direct,
   indirect_relationships |-> before.indirect_relationships \o items.indirect,
   future_relationships |-> before.future_relationships \o items.future]

\* the three arrays after the forEach over the first n discovered entries
RECURSIVE networkOf(_, _, _)
networkOf(ctx, discovered, n) ==
  IF n = 0
    THEN [direct_relationships |-> <<>>, indirect_relationships |-> <<>>,
          future_relationships |-> <<>>]
    ELSE pushItems(networkOf(ctx, discovered, n - 1),
                   networkItemsOf(ctx, discovered[n]))

\* getNpcRelationshipNetwork from line 1302 on
networkOfDiscovery(ctx, discoveredRelationships) ==
  IF discoveredRelationships.status = "error" THEN <<>>
  ELSE <<networkOf(ctx, discoveredRelationships.discovered_relationships,
                   Len(discoveredRelationships.discovered_relationships))>>

\* getNpcRelationshipNetwork(npcIdOrName): <<network>>, or <<>> for null
getNpcRelationshipNetwork(ctx, npcIdOrName) ==
  networkOfDiscovery(ctx, discoverNpcRelationships(ctx, npcIdOrName))

\* a statistics update that leaves the mutual relationships out of the totals
addDiscoveryDropping(t, relationships, relationshipNetwork) ==
  IF relationships.status = "error"
    THEN [t EXCEPT !.failed_discoveries = @ + 1]
    ELSE [t EXCEPT !.successful_discoveries = @ + 1,
                   !.total_direct_relationships =
                      @ + relationships.stats.direct_relationships]

\* the statistics update of discoverAllNpcRelationships for one NPC
addDiscovery(t, relationships, relationshipNetwork) ==
  IF relationships.status = "error"
    THEN [t EXCEPT !.failed_discoveries = @ + 1]
    ELSE [successful_discoveries |-> t.successful_discoveries + 1,
          failed_discoveries |-> t.failed_discoveries,
          total_direct_relationships |->
            t.total_direct_relationships + relationships.stats.direct_relationships,
          total_indirect_relationships |->
            t.total_indirect_relationships
              + relationships.stats.indirect_relationships,
          total_future_relationships |->
            t.total_future_relationships
              + Len(relationshipNetwork[1].future_relationships),
          total_mutual_relationships |->
            t.total_mutual_relationships + relationships.stats.mutual_relationships,
          total_conflicting_relationships |->
            t.total_conflicting_relationships
              + relationships.stats.conflicting_relationships]

\* discoverAllNpcRelationships(): the totals after the loop over the first n
\* ids (an id without metadata is skipped and counted nowhere)
RECURSIVE discoverAllTotals(_, _, _)
discoverAllTotals(ctx, allNpcIds, n) ==
  IF n = 0
    THEN [successful_discoveries |-> 0, failed_discoveries |-> 0,
          total_direct_relationships |-> 0, total_indirect_relationships |-> 0,
          total_future_relationships |-> 0, total_mutual_relationships |-> 0,
          total_conflicting_relationships |-> 0]
    ELSE IF getNpcMetadata(ctx, allNpcIds[n]) = <<>>
      THEN discoverAllTotals(ctx, allNpcIds, n - 1)
      ELSE addDiscovery(discoverAllTotals(ctx, allNpcIds, n - 1),
                        discoverNpcRelationships(ctx, allNpcIds[n]),
                        getNpcRelationshipNetwork(ctx, allNpcIds[n]))

discoverAllNpcRelationships(ctx) ==
  Spread([total_npcs |-> Len(getAllNpcIds(ctx))],
         discoverAllTotals(ctx, getAllNpcIds(ctx), Len(getAllNpcIds(ctx))))

(***************************************************************************)
(* The periodic jobs, and the calls that throw on a name that is no string *)
(***************************************************************************)
\* name.toLowerCase() on a name that is no string: a TypeError
lowerCaseThrows(name) == name = NULL

\* findNpcByName(name), name a string: data.metadata.name.toLowerCase()
\* (line 883) throws on the first stored name that is no string, unless an
\* entry before it matched
findNpcByNameThrows(ctx, name) ==
  \E i \in 1..Len(ctx) :
    /\ lowerCaseThrows(ctx[i].metadata.name)
    /\ \A k \in 1..(i - 1) :
         toLowerCase(ctx[k].metadata.name) # toLowerCase(name)

\* getNpcRelationship, lines 971-974 and 981-984: the exact lookup gave a
\* falsy value and name.toLowerCase() throws
searchThrows(npc, name) ==
  /\ "relationships" \in DOMAIN npc
  /\ ~Truthy(RelGet(npc.relationships, name))
  /\ lowerCaseThrows(name)

\* getNpcRelationship on two stored NPCs throws
relationshipThrows(npc1, npc2) ==
  searchThrows(npc1, npc2.name) \/ searchThrows(npc2, npc1.name)

\* discoverNpcRelationships(ctx[i].id) throws: the loop over the other ids
\* (lines 1065-1081) calls getNpcRelationship without try/catch
discoverThrows(ctx, i) ==
  \E j \in 1..Len(ctx) :
    j # i /\ relationshipThrows(ctx[i].metadata, ctx[j].metadata)

\* discoverAllNpcRelationships() throws: its loop (lines 1640-1700) calls
\* discoverNpcRelationships without try/catch
discoverAllThrows(ctx) == \E i \in 1..Len(ctx) : discoverThrows(ctx, i)

\* logAllNpcData(): what it logs of each entry; it reads the store and
\* calls no method on what it reads
logAllNpcData(ctx) ==
  [i \in 1..Len(ctx) |->
     [id |-> ctx[i].id, name |-> ctx[i].metadata.name,
      conversation_count |-> Len(ctx[i].conversations)]]

(***************************************************************************)
(* Actions: one per exported function, as the routes and timers call them. *)
(***************************************************************************)
Init ==
  /\ npcContexts = <<>>
  /\ nextUuid = 1
  /\ result = NoResult
  /\ timers = Jobs
  /\ turns = [t \in TurnIds |-> IdleTurn]

InitializeNpc(npcData) ==
  /\ nextUuid <= MaxIds
  /\ npcContexts' = initializeNpc(npcContexts, UUIDS[nextUuid], npcData)
  /\ nextUuid' = nextUuid + 1
  /\ result' = [op |-> "initializeNpc", args |-> <<npcData.name>>,
                value |-> UUIDS[nextUuid]]
  /\ UNCHANGED <<timers, turns>>

InitializeNpcs(npcsData) ==
  /\ nextUuid + Len(npcsData) - 1 <= MaxIds
  /\ npcContexts' = initializeNpcs(npcContexts, nextUuid, npcsData)
  /\ nextUuid' = nextUuid + Len(npcsData)
  /\ result' = [op |-> "initializeNpcs",
                args |-> [k \in 1..Len(npcsData) |-> npcsData[k].name],
                value |-> TRUE]
  /\ UNCHANGED <<timers, turns>>

UpdateNpcMetadata(npcId, updates) ==
  /\ npcContexts' = updateNpcMetadata(npcContexts, npcId, updates)
  /\ result' = [op |-> "updateNpcMetadata", args |-> <<npcId>>,
                value |-> Has(npcContexts, npcId)]
  /\ UNCHANGED nextUuid
  /\ UNCHANGED <<timers, turns>>

UpdateNpcRelationship(npcId1, npcId2OrName, relationshipStatus) ==
  /\ npcContexts' =
       updateNpcRelationship(npcContexts, npcId1, npcId2OrName, relationshipStatus)
  /\ result' = [op |-> "updateNpcRelationship",
                args |-> <<npcId1, npcId2OrName, relationshipStatus>>,
                value |-> Has(npcContexts, npcId1)]
  /\ UNCHANGED nextUuid
  /\ UNCHANGED <<timers, turns>>

AddMessage(npcId, role, content) ==
  /\ Has(npcContexts, npcId) => Len(Get(npcContexts, npcId).conversations) < MaxConv
  /\ npcContexts' = addMessage(npcContexts, npcId, role, content)
  /\ result' = [op |-> "addMessage", args |-> <<npcId>>,
                value |-> Has(npcContexts, npcId)]
  /\ UNCHANGED nextUuid
  /\ UNCHANGED <<timers, turns>>

ClearConversationHistory(npcId) ==
  /\ npcContexts' = clearConversationHistory(npcContexts, npcId)
  /\ result' = [op |-> "clearConversationHistory", args |-> <<npcId>>,
                value |-> Has(npcContexts, npcId)]
  /\ UNCHANGED nextUuid
  /\ UNCHANGED <<timers, turns>>

\* GET /npc/:npcIdOrName/history
GetConversationHistory(npcId, limit) ==
  /\ result' = [op |-> "getConversationHistory", args |-> <<npcId, limit>>,
                value |-> getConversationHistory(npcContexts, npcId, limit)]
  /\ UNCHANGED <<npcContexts, nextUuid, timers, turns>>

RemoveNpc(npcId) ==
  /\ npcContexts' = removeNpc(npcContexts, npcId)
  /\ result' = [op |-> "removeNpc", args |-> <<npcId>>,
                value |-> Has(npcContexts, npcId)]
  /\ UNCHANGED nextUuid
  /\ UNCHANGED <<timers, turns>>

\* GET /npc/relationship: getNpcRelationship(npc1, npc2), two arguments
GetNpcRelationship(npcId1OrName, npcId2OrName) ==
  /\ result' = [op |-> "getNpcRelationship",
                args |-> <<npcId1OrName, npcId2OrName>>,
                value |-> getNpcRelationship(npcContexts, npcId1OrName,
                                             npcId2OrName, TRUE)]
  /\ UNCHANGED <<npcContexts, nextUuid>>
  /\ UNCHANGED <<timers, turns>>

DiscoverNpcRelationships(npcIdOrName) ==
  /\ result' = [op |-> "discoverNpcRelationships", args |-> <<npcIdOrName>>,
                value |-> discoverNpcRelationships(npcContexts, npcIdOrName)]
  /\ UNCHANGED <<npcContexts, nextUuid>>
  /\ UNCHANGED <<timers, turns>>

GetNpcRelationshipNetwork(npcIdOrName) ==
  /\ result' = [op |-> "getNpcRelationshipNetwork", args |-> <<npcIdOrName>>,
                value |-> getNpcRelationshipNetwork(npcContexts, npcIdOrName)]
  /\ UNCHANGED <<npcContexts, nextUuid>>
  /\ UNCHANGED <<timers, turns>>

\* GET /npc/discover-relationships, and the discovery timer
DiscoverAllNpcRelationships ==
  /\ result' = [op |-> "discoverAllNpcRelationships", args |-> <<>>,
                value |-> discoverAllNpcRelationships(npcContexts)]
  /\ UNCHANGED <<npcContexts, nextUuid>>
  /\ UNCHANGED <<timers, turns>>

\* GET /npc/debug/log: logAllNpcData() on demand
LogAllNpcData ==
  /\ result' = [op |-> "logAllNpcData", args |-> <<>>,
                value |-> logAllNpcData(npcContexts)]
  /\ UNCHANGED <<npcContexts, nextUuid, timers, turns>>

\* the setInterval callback of startPeriodicLogging (lines 1798-1804)
PeriodicLogging ==
  /\ "logging" \in timers
  /\ result' = [op |-> "periodicLogging", args |-> <<>>,
                value |-> logAllNpcData(npcContexts)]
  /\ UNCHANGED <<npcContexts, nextUuid, timers, turns>>

\* a discovery run that would drop the first entity of the store
AutoRelationshipDiscoveryPruning ==
  /\ "discovery" \in timers
  /\ result' = [op |-> "autoRelationshipDiscovery", args |-> <<>>,
                value |-> discoverAllNpcRelationships(npcContexts)]
  /\ npcContexts' = IF npcContexts = <<>> THEN npcContexts ELSE Tail(npcContexts)
  /\ UNCHANGED <<nextUuid, timers, turns>>

\* the setInterval callback of startAutoRelationshipDiscovery (lines
\* 1781-1785).  The callback has no try/catch and the program installs no
\* uncaughtException handler: an exception thrown by the run ends the Node
\* process, and with it both timers.
AutoRelationshipDiscovery ==
  /\ "discovery" \in timers
  /\ IF discoverAllThrows(npcContexts)
       THEN /\ result' = [op |-> "uncaughtException",
                          args |-> <<"discoverAllNpcRelationships">>,
                          value |-> FALSE]
            /\ timers' = {}
       ELSE /\ result' = [op |-> "autoRelationshipDiscovery", args |-> <<>>,
                          value |-> discoverAllNpcRelationships(npcContexts)]
            /\ UNCHANGED timers
  /\ UNCHANGED <<npcContexts, nextUuid, turns>>

\* a registration whose findNpcByName throws: the route answers 500
InitializeNpcThrows(npcData) ==
  /\ findNpcByNameThrows(npcContexts, npcData.name)
  /\ result' = [op |-> "initializeNpc", args |-> <<npcData.name>>,
                value |-> "TypeError"]
  /\ UNCHANGED <<npcContexts, nextUuid, timers, turns>>

\* the Node process is running
Running == timers = Jobs

\* the other of the two turns
otherTurn(t) == CHOOSE o \in TurnIds : o # t

\* the npcMetadata and actualNpcId the chat route resolves (lines 524-538):
\* <<[id, metadata]>>, or <<>> when neither the id nor the name is found, or
\* when the id of the NPC found by name, which an id field of its metadata
\* overrides, is no key of the store
resolveChatNpc(ctx, npcIdOrName) ==
  IF getNpcMetadata(ctx, npcIdOrName) # <<>>
    THEN <<[id |-> npcIdOrName, metadata |-> getNpcMetadata(ctx, npcIdOrName)[1]]>>
  ELSE IF /\ findNpcByName(ctx, npcIdOrName) # <<>>
          /\ getNpcMetadata(ctx, findNpcByName(ctx, npcIdOrName)[1].id) # <<>>
    THEN <<[id |-> findNpcByName(ctx, npcIdOrName)[1].id,
            metadata |->
              getNpcMetadata(ctx, findNpcByName(ctx, npcIdOrName)[1].id)[1]]>>
  ELSE <<>>

\* the turns after turn t has read resolved and awaits the language model:
\* a turn awaiting on the same NPC overlaps with it
turnsAfterStart(t, resolved) ==
  LET o == otherTurn(t)
      overlap == turns[o].pc = "awaiting" /\ turns[o].npcId = resolved.id
  IN [turns EXCEPT
        ![t] = [IdleTurn EXCEPT !.pc = "awaiting", !.npcId = resolved.id,
                                !.snapshot = <<resolved.metadata>>,
                                !.overlapped = overlap,
                                !.issued = nextUuid - 1,
                                !.playerAt =
                                   Len(Get(npcContexts, resolved.id).conversations) + 1],
        ![o] = [@ EXCEPT !.overlapped = @ \/ overlap]]

\* POST /npc/:npcIdOrName/chat up to the await of sendToAIWithHistory
\* (lines 515-804): 404, 400, or the player's message is stored; what the
\* handler reads for the prompt changes nothing
ChatStart(t, npcIdOrName, message) ==
  /\ turns[t].pc = "idle"
  /\ IF resolveChatNpc(npcContexts, npcIdOrName) = <<>>
       THEN /\ result' = [op |-> "chatRequest", args |-> <<t, npcIdOrName>>,
                          value |-> 404]
            /\ UNCHANGED <<npcContexts, turns>>
     ELSE IF message = ""
       THEN /\ result' = [op |-> "chatRequest", args |-> <<t, npcIdOrName>>,
                          value |-> 400]
            /\ UNCHANGED <<npcContexts, turns>>
     ELSE /\ npcContexts' =
               addMessage(npcContexts, resolveChatNpc(npcContexts, npcIdOrName)[1].id,
                          "player", message)
          /\ turns' = turnsAfterStart(t, resolveChatNpc(npcContexts, npcIdOrName)[1])
          /\ result' = [op |-> "chatRequest", args |-> <<t, npcIdOrName>>,
                        value |-> 0]
  /\ UNCHANGED <<nextUuid, timers>>

\* the relationship keys a turn sets, with their labels
targetsOf(ctx, metadata) ==
  IF "npc_relationships" \in DOMAIN metadata
    THEN [k \in 1..Len(metadata.npc_relationships) |->
            [name |-> npc2NameOf(ctx, metadata.npc_relationships[k].name),
             label |-> metadata.npc_relationships[k].label]]
    ELSE <<>>

\* the turn t once it has answered with data
turnDone(t, data) ==
  [turns[t] EXCEPT
     !.pc = "done", !.status = 200, !.reply = data.reply,
     !.wrote = IF data.reply = "" THEN <<>> ELSE data.metadata,
     !.targets = IF data.reply = "" THEN <<>>
                 ELSE targetsOf(npcContexts, data.metadata),
     !.replyAt = IF data.reply = "" \/ ~Has(npcContexts, turns[t].npcId) THEN 0
                 ELSE Len(Get(npcContexts, turns[t].npcId).conversations) + 1]

\* POST /npc/:npcIdOrName/chat from the return of sendToAIWithHistory on
\* (lines 805-860), parsedContent being the JSON of the answer: one
\* synchronous block
ChatFinish(t, parsedContent) ==
  /\ turns[t].pc = "awaiting"
  /\ npcContexts' =
       chatWrites(npcContexts, turns[t].npcId,
                  formatSuccessResponse(parsedContent, turns[t].snapshot[1]))
  /\ turns' =
       [turns EXCEPT
          ![t] = turnDone(t, formatSuccessResponse(parsedContent,
                                                   turns[t].snapshot[1]))]
  /\ result' = [op |-> "chat", args |-> <<t, turns[t].npcId>>, value |-> 200]
  /\ UNCHANGED <<nextUuid, timers>>

\* sendToAIWithHistory rejects: the catch of the route answers 500 (lines
\* 861-867) and nothing is written
ChatFails(t) ==
  /\ turns[t].pc = "awaiting"
  /\ turns' = [turns EXCEPT ![t] = [@ EXCEPT !.pc = "done", !.status = 500]]
  /\ result' = [op |-> "chat", args |-> <<t, turns[t].npcId>>, value |-> 500]
  /\ UNCHANGED <<npcContexts, nextUuid, timers>>

IssuedIds == {UUIDS[i] : i \in 1..(nextUuid - 1)}

(***************************************************************************)
(* Spec: the entity store's lifecycle.  A registration payload carries a   *)
(* name and, or not, an id field of its own; a metadata update renames; a  *)
(* message is the player's; a relationship update is made on the id of a   *)
(* removed NPC.                                                            *)
(***************************************************************************)
EntityNames == {"Mayor", "mayor", "Smith"}

LifecyclePayloads ==
  {[name |-> n] : n \in EntityNames}
    \cup {[name |-> "Mayor", id |-> "npc_mayor"]}

LifecycleBatches ==
  {<<[name |-> a], [name |-> b]>> : a, b \in {"Mayor", "mayor"}}

LifecycleUpdates == {[name |-> n] : n \in EntityNames}

Next ==
  \/ \E d \in LifecyclePayloads : InitializeNpc(d)
  \/ \E b \in LifecycleBatches : InitializeNpcs(b)
  \/ \E id \in IssuedIds, u \in LifecycleUpdates : UpdateNpcMetadata(id, u)
  \/ \E id \in IssuedIds : AddMessage(id, "player", "Hello")
  \/ \E id \in IssuedIds : ClearConversationHistory(id)
  \/ \E id \in IssuedIds : RemoveNpc(id)
  \/ \E id \in IssuedIds, limit \in {0, 1} : GetConversationHistory(id, limit)
  \/ \E id \in IssuedIds \ StoredIds(npcContexts) :
       UpdateNpcRelationship(id, "Smith", "Friend")

Spec == Init /\ [][Next]_vars

(***************************************************************************)
(* SpecPlayer: the player_relationship record.  A registration payload     *)
(* carries no record, a record without the three scores, or a full one; a  *)
(* metadata update replaces the record or the description, a relationship  *)
(* update names Smith, as the chat route writes them after a turn.         *)
(***************************************************************************)
PartialPlayerRelationship == [status |-> "friendly"]

FullPlayerRelationship ==
  [status |-> "friendly", affinity |-> 65, trust |-> 70, respect |-> 60,
   history |-> <<"Helped with quest">>]

PlayerPayloads ==
  {[name |-> n] : n \in {"Mayor", "Smith"}}
    \cup {[name |-> n, player_relationship |-> p] :
            n \in {"Mayor", "Smith"},
            p \in {PartialPlayerRelationship, FullPlayerRelationship}}

PlayerUpdates ==
  {[player_relationship |-> p] :
     p \in {PartialPlayerRelationship, FullPlayerRelationship}}
    \cup {[description |-> "A stern official"]}

NextPlayer ==
  \/ \E d \in PlayerPayloads : InitializeNpc(d)
  \/ \E id \in IssuedIds, u \in PlayerUpdates : UpdateNpcMetadata(id, u)
  \/ \E id \in IssuedIds : UpdateNpcRelationship(id, "smith", "Friend")
  \/ \E id \in IssuedIds : RemoveNpc(id)

SpecPlayer == Init /\ [][NextPlayer]_vars

(***************************************************************************)
(* The relationship updates: edges are set to names of stored NPCs, in any *)
(* case, and to a name no NPC has, on NPCs that hold messages.             *)
(***************************************************************************)
EdgePayloads == {[name |-> "Mayor"], [name |-> "Smith"]}

EdgeLabels == {"Friend", "Rival"}

NextEdges ==
  \/ \E d \in EdgePayloads : InitializeNpc(d)
  \/ \E id \in IssuedIds : UpdateNpcRelationship(id, "smith", "Friend")
  \/ \E id \in IssuedIds, label \in EdgeLabels :
       UpdateNpcRelationship(id, "Ghost", label)
  \/ \E id \in IssuedIds : AddMessage(id, "player", "Hello")
  \/ \E id \in IssuedIds : RemoveNpc(id)

SpecEdges == Init /\ [][NextEdges]_vars

(***************************************************************************)
(* SpecRel: the relationship graph and its queries.  Three NPCs, Mayor,    *)
(* Smith and Ghost, are registered in any order, re-registered and         *)
(* removed.  Mayor's payload names Smith (a label, or the empty label) and *)
(* Ghost; Smith's payload names Mayor in lower case, or Ghost, or holds    *)
(* the keys "Mayor" (empty label) and "mayor" together; Ghost's payload    *)
(* has no relationships field.  Identifiers in queries are ids, and the    *)
(* names "mayor" and "Ghost".                                              *)
(***************************************************************************)
\* the relationships objects with the keys of keys, in that order, each key
\* absent or holding one of its labels
RECURSIVE RelObjects(_, _)
RelObjects(keys, labels) ==
  IF keys = <<>> THEN {<<>>}
  ELSE LET rest == RelObjects(Tail(keys), labels)
       IN rest \cup
          {<<[name |-> Head(keys), label |-> l]>> \o r :
             l \in labels[Head(keys)], r \in rest}

MayorRelationships ==
  RelObjects(<<"Smith", "Ghost">>, [Smith |-> {"friend", ""}, Ghost |-> {"rival"}])

SmithRelationships ==
  {<<>>,
   <<[name |-> "mayor", label |-> "friend"]>>,
   <<[name |-> "Ghost", label |-> "friend"]>>,
   <<[name |-> "Mayor", label |-> ""], [name |-> "mayor", label |-> "rival"]>>}

RelPayloads ==
  {[name |-> "Mayor", relationships |-> r] : r \in MayorRelationships}
    \cup {[name |-> "Smith", relationships |-> r] : r \in SmithRelationships}
    \cup {[name |-> "Ghost"]}

QueryIdentifiers == IssuedIds \cup {"mayor", "Ghost"}

NextRel ==
  \/ \E d \in RelPayloads : InitializeNpc(d)
  \/ \E id \in IssuedIds : RemoveNpc(id)
  \/ \E a \in IssuedIds, b \in QueryIdentifiers : GetNpcRelationship(a, b)
  \/ \E a \in IssuedIds \cup {"mayor"} : DiscoverNpcRelationships(a)
  \/ \E a \in IssuedIds : GetNpcRelationshipNetwork(a)
  \/ DiscoverAllNpcRelationships
  \/ LogAllNpcData
  \/ PeriodicLogging
  \/ AutoRelationshipDiscovery

SpecRel == Init /\ [][NextRel]_vars

(***************************************************************************)
(* SpecJobs: the two periodic jobs beside the routes.  NPCs are registered *)
(* and removed; a metadata update renames an NPC or, as the chat route     *)
(* does with the metadata of an AI answer, sets whatever name it is given, *)
(* null included; each timer fires at any time while the process runs.     *)
(***************************************************************************)
JobPayloads ==
  {[name |-> "Mayor"], [name |-> "Smith"],
   [name |-> "Mayor", relationships |-> <<[name |-> "Smith", label |-> "friend"]>>]}

JobUpdates == {[name |-> NULL], [name |-> "Mayor"]}

NextJobs ==
  \/ \E d \in JobPayloads :
       Running /\ ~findNpcByNameThrows(npcContexts, d.name) /\ InitializeNpc(d)
  \/ \E d \in JobPayloads : Running /\ InitializeNpcThrows(d)
  \/ \E id \in IssuedIds, u \in JobUpdates : Running /\ UpdateNpcMetadata(id, u)
  \/ \E id \in IssuedIds : Running /\ RemoveNpc(id)
  \/ Running /\ LogAllNpcData
  \/ PeriodicLogging
  \/ AutoRelationshipDiscovery

SpecJobs == Init /\ [][NextJobs]_vars

(***************************************************************************)
(* The chat turns: two requests in flight, on NPCs that are registered,     *)
(* with an id field of their own or without, and removed meanwhile.  The    *)
(* answers follow the format the prompt of the route asks for: a reply,     *)
(* and a metadata of mood, player_relationship and npc_relationships.       *)
(***************************************************************************)
ChatPayloads ==
  {[name |-> "Mayor"], [name |-> "Smith"], [name |-> "Mayor", id |-> "npc_mayor"]}

AiContents ==
  {[reply |-> "Aye.",
    metadata |-> [mood |-> "happy",
                  npc_relationships |-> <<[name |-> "Smith", label |-> "Friendly"]>>]],
   [reply |-> "Nay.",
    metadata |-> [mood |-> "angry",
                  npc_relationships |-> <<[name |-> "smith", label |-> "Hates"]>>]],
   [reply |-> "Well.",
    metadata |-> [player_relationship |->
                    [DefaultPlayerRelationship EXCEPT !.status = "friendly"]]],
   [reply |-> "Hm.", metadata |-> <<>>],
   [reply |-> "", metadata |-> [mood |-> "sad"]]}

NextChat ==
  \/ \E d \in ChatPayloads : InitializeNpc(d)
  \/ \E id \in IssuedIds : RemoveNpc(id)
  \/ \E t \in TurnIds, a \in IssuedIds \cup {"mayor"}, m \in {"Hello", ""} :
       ChatStart(t, a, m)
  \/ \E t \in TurnIds, c \in AiContents : ChatFinish(t, c)
  \/ \E t \in TurnIds : ChatFails(t)

SpecChat == Init /\ [][NextChat]_vars

(***************************************************************************)
(* The payload normalisation of initializeNpc (lines 56-714) on payloads   *)
(* of any JSON shape.  A JSON value is a record [t, s, n, v]: t is its     *)
(* type, s the content of a string, n that of a number, v the entries      *)
(* [k, v] of an object in Object.entries order (index-like keys first,     *)
(* ascending, then the other keys in insertion order) or of an array (its  *)
(* elements under their indices).  A                                       *)
(* payload or a metadata object is a TLA+ record of JSON values with the   *)
(* fields name, relationships, relationship, inventory and skills; an      *)
(* absent field holds Undefined.                                           *)
(***************************************************************************)
Str(s) == [t |-> "string", s |-> s, n |-> 0, v |-> <<>>]

Num(n) == [t |-> "number", s |-> "", n |-> n, v |-> <<>>]

Obj(entries) == [t |-> "object", s |-> "", n |-> 0, v |-> entries]

Null == [t |-> "null", s |-> "", n |-> 0, v |-> <<>>]

Undefined == [t |-> "undefined", s |-> "", n |-> 0, v |-> <<>>]

\* the strings of the model that are array indices
IndexKeys == <<"0", "1", "2">>

Arr(items) ==
  [t |-> "array", s |-> "", n |-> 0,
   v |-> [i \in 1..Len(items) |-> [k |-> IndexKeys[i], v |-> items[i]]]]

\* !isNaN(parseInt(key)) on the keys of the model: the index keys
isNumericKey(k) == \E i \in 1..Len(IndexKeys) : IndexKeys[i] = k

\* JavaScript truthiness
truthy(x) ==
  CASE x.t = "string" -> x.s # ""
    [] x.t = "number" -> x.n # 0
    [] x.t \in {"null", "undefined"} -> FALSE
    [] OTHER -> TRUE

\* typeof x === 'object' && x !== null
isObjectNotNull(x) == x.t \in {"object", "array"}

\* Object.entries(x) of an object or an array
entriesOf(x) == x.v

\* Object.keys(x).length > 0
hasKeys(x) == IF x.t = "string" THEN x.s # "" ELSE entriesOf(x) # <<>>

ObjHas(entries, key) == \E i \in 1..Len(entries) : entries[i].k = key

\* obj[key], for a present key
ObjGet(entries, key) == entries[CHOOSE i \in 1..Len(entries) : entries[i].k = key].v

\* obj[key] = value on the entries of an object: a present key keeps its
\* place, a new index-like key goes before the other keys, a new other key
\* goes last
ObjSet(entries, key, value) ==
  IF ObjHas(entries, key)
    THEN [i \in 1..Len(entries) |->
            IF entries[i].k = key THEN [k |-> key, v |-> value] ELSE entries[i]]
    ELSE IF isNumericKey(key)
      THEN SelectSeq(entries, LAMBDA e : isNumericKey(e.k))
             \o <<[k |-> key, v |-> value]>>
             \o SelectSeq(entries, LAMBDA e : ~isNumericKey(e.k))
      ELSE Append(entries, [k |-> key, v |-> value])

\* enhancedData.relationships[name] = value: on an object it sets the key;
\* on a string or a number the assignment is dropped (the module is not in
\* strict mode); on an array it sets a property that no later step reads
\* (the names of the model are no indices)
assignRelationship(relationships, name, value) ==
  IF relationships.t = "object"
    THEN Obj(ObjSet(relationships.v, name, value))
    ELSE relationships

\* forEach(([name, status]) => { if (name && status) relationships[name] = status })
RECURSIVE assignTruthy(_, _, _)
assignTruthy(relationships, entries, n) ==
  IF n = 0 THEN relationships
  ELSE IF entries[n].k # "" /\ truthy(entries[n].v)
    THEN assignRelationship(assignTruthy(relationships, entries, n - 1),
                            entries[n].k, entries[n].v)
    ELSE assignTruthy(relationships, entries, n - 1)

\* forEach(([key, value]) => { if (typeof value === 'string') relationships[key] = value })
RECURSIVE assignStrings(_, _, _)
assignStrings(relationships, entries, n) ==
  IF n = 0 THEN relationships
  ELSE IF entries[n].v.t = "string"
    THEN assignRelationship(assignStrings(relationships, entries, n - 1),
                            entries[n].k, entries[n].v)
    ELSE assignStrings(relationships, entries, n - 1)

\* the direct object format of the singular field (lines 98-117): a string
\* value is taken under its key, an object value gives its string entries,
\* the keys type and isArray are skipped
RECURSIVE assignDirect(_, _, _)
assignDirect(relationships, entries, n) ==
  IF n = 0 THEN relationships
  ELSE IF entries[n].k \in {"type", "isArray"}
    THEN assignDirect(relationships, entries, n - 1)
  ELSE IF entries[n].v.t = "string"
    THEN assignRelationship(assignDirect(relationships, entries, n - 1),
                            entries[n].k, entries[n].v)
  ELSE IF isObjectNotNull(entries[n].v)
    THEN assignStrings(assignDirect(relationships, entries, n - 1),
                       entriesOf(entries[n].v), Len(entriesOf(entries[n].v)))
  ELSE assignDirect(relationships, entries, n - 1)

\* The strings of the model.  What the string code of initializeNpc
\* (includes, replace, the regular expressions, split, JSON.parse) gives on
\* them is tabulated below, each table from the lines it names.
UnrealRelationship == "Alfred\\\": \\\"Standoffish"

JsonRelationship == "{\"Alfred\":\"Friendly\"}"

ColonRelationship == "Alfred:Friendly"

\* s.includes('\\\"'): s holds a backslash followed by a double quote
includesEscapedQuote(s) == s = UnrealRelationship

\* lines 126-247: the pairs found in the cleaned string by the regular
\* expression, by JSON.parse of the string in braces, by the split on commas
unrealPairsEarly(s) == <<>>

\* lines 249-270, strategy 1: the "name": "status" matches of the cleaned string
strategy1Pairs(s) == <<>>

\* lines 275-291, strategy 2: the string split on runs of : " and \, the
\* parts trimmed, the empty ones dropped, and paired two by two
strategy2Pairs(s) ==
  CASE s = UnrealRelationship -> <<[k |-> "Alfred", v |-> Str("Standoffish")]>>
    [] s = JsonRelationship -> <<[k |-> "{", v |-> Str("Alfred")],
                                 [k |-> "Friendly", v |-> Str("}")]>>
    [] s = ColonRelationship -> <<[k |-> "Alfred", v |-> Str("Friendly")]>>
    [] OTHER -> <<>>

\* lines 438-440: s.startsWith('{') && s.endsWith('}'), and JSON.parse(s)
isBraced(s) == s = JsonRelationship

jsonParse(s) == Obj(<<[k |-> "Alfred", v |-> Str("Friendly")]>>)

\* lines 470-595: the pairs found in the cleaned string by the regular
\* expression, JSON.parse, the split on commas, or (method 4) the split on
\* runs of " : and \
unrealPairsLate(s) ==
  CASE s = UnrealRelationship -> <<[k |-> "Alfred", v |-> Str("Standoffish")]>>
    [] OTHER -> <<>>

\* line 319: rel.split(':').map(p => p.trim())
splitColon(s) ==
  CASE s = ColonRelationship -> <<"Alfred", "Friendly">>
    [] OTHER -> <<s>>

\* lines 611-708: an inventory or skills string split into items
splitItems(s) ==
  CASE s = "Sword,Shield" -> <<Str("Sword"), Str("Shield")>>
    [] s = "SwordShield" -> <<Str("Sword"), Str("Shield")>>
    [] s = "" -> <<>>
    [] OTHER -> <<Str(s)>>

\* lines 275-291 on the relationships so far
strategy2(relationships, s) ==
  IF hasKeys(relationships) THEN relationships
  ELSE assignTruthy(relationships, strategy2Pairs(s), Len(strategy2Pairs(s)))

\* lines 249-270 on the relationships so far
strategy1(relationships, s) ==
  IF ~hasKeys(relationships) /\ includesEscapedQuote(s)
    THEN assignTruthy(relationships, strategy1Pairs(s), Len(strategy1Pairs(s)))
    ELSE relationships

\* lines 126-247 on the relationships so far
unrealEarly(relationships, s) ==
  IF includesEscapedQuote(s)
    THEN assignTruthy(relationships, unrealPairsEarly(s), Len(unrealPairsEarly(s)))
    ELSE relationships

\* lines 76-298: the singular field relationship, when truthy, read into the
\* relationships so far
singularField(relationships, relationship) ==
  IF ~truthy(relationship) THEN relationships
  ELSE IF isObjectNotNull(relationship)
    THEN IF /\ relationship.t = "object"
            /\ ObjHas(relationship.v, "type")
            /\ ObjGet(relationship.v, "type") = Str("object")
            /\ ObjHas(relationship.v, "value")
            /\ isObjectNotNull(ObjGet(relationship.v, "value"))
           THEN assignTruthy(relationships,
                             entriesOf(ObjGet(relationship.v, "value")),
                             Len(entriesOf(ObjGet(relationship.v, "value"))))
           ELSE assignDirect(relationships, entriesOf(relationship),
                             Len(entriesOf(relationship)))
  ELSE IF relationship.t = "string"
    THEN strategy2(strategy1(unrealEarly(relationships, relationship.s),
                             relationship.s),
                   relationship.s)
  ELSE relationships

\* forEach(([key, value]) => { relationshipObj[key] = value })
RECURSIVE assignAll(_, _, _)
assignAll(relationships, entries, n) ==
  IF n = 0 THEN relationships
  ELSE assignRelationship(assignAll(relationships, entries, n - 1),
                          entries[n].k, entries[n].v)

\* lines 313-326: one element of a relationships array read into relationshipObj
arrayElement(relationshipObj, rel) ==
  IF isObjectNotNull(rel)
    THEN assignAll(relationshipObj, entriesOf(rel), Len(entriesOf(rel)))
  ELSE IF rel.t = "string" /\ Len(splitColon(rel.s)) >= 2
    THEN assignRelationship(relationshipObj, splitColon(rel.s)[1],
                            Str(splitColon(rel.s)[2]))
  ELSE relationshipObj

\* lines 310-327: relationshipObj after the first n elements of the array
RECURSIVE fromArray(_, _)
fromArray(items, n) ==
  IF n = 0 THEN Obj(<<>>)
  ELSE arrayElement(fromArray(items, n - 1), items[n].v)

\* lines 344-356: of an object value, the first entry when both sides are truthy
firstEntry(relationshipObj, value) ==
  IF /\ isObjectNotNull(value)
     /\ Len(entriesOf(value)) > 0
     /\ entriesOf(value)[1].k # ""
     /\ truthy(entriesOf(value)[1].v)
    THEN assignRelationship(relationshipObj, entriesOf(value)[1].k,
                            entriesOf(value)[1].v)
    ELSE relationshipObj

\* lines 340-357: relationshipObj after the first n entries of the map
RECURSIVE fromFirstEntries(_, _)
fromFirstEntries(entries, n) ==
  IF n = 0 THEN Obj(<<>>)
  ELSE firstEntry(fromFirstEntries(entries, n - 1), entries[n].v)

\* lines 367-377: a string value under its key, every entry of an object value
keyOrNested(relationshipObj, entry) ==
  IF entry.v.t = "string"
    THEN assignRelationship(relationshipObj, entry.k, entry.v)
  ELSE IF isObjectNotNull(entry.v)
    THEN assignAll(relationshipObj, entriesOf(entry.v), Len(entriesOf(entry.v)))
  ELSE relationshipObj

\* lines 366-378: relationshipObj after the first n entries of the map
RECURSIVE fromKeysOrNested(_, _)
fromKeysOrNested(entries, n) ==
  IF n = 0 THEN Obj(<<>>)
  ELSE keyOrNested(fromKeysOrNested(entries, n - 1), entries[n])

\* lines 391-408: under a numeric key, an object of exactly one entry
singleEntry(relationshipObj, entry) ==
  IF /\ isNumericKey(entry.k)
     /\ isObjectNotNull(entry.v)
     /\ Len(entriesOf(entry.v)) = 1
     /\ entriesOf(entry.v)[1].k # ""
     /\ truthy(entriesOf(entry.v)[1].v)
    THEN assignRelationship(relationshipObj, entriesOf(entry.v)[1].k,
                            entriesOf(entry.v)[1].v)
    ELSE relationshipObj

\* lines 387-410: relationshipObj after the first n entries of the map
RECURSIVE fromSingleEntries(_, _)
fromSingleEntries(entries, n) ==
  IF n = 0 THEN Obj(<<>>)
  ELSE singleEntry(fromSingleEntries(entries, n - 1), entries[n])

\* if (Object.keys(relationshipObj).length === 0) { the next parsing }
orElse(relationshipObj, next) == IF hasKeys(relationshipObj) THEN relationshipObj ELSE next

\* lines 334-411: relationshipObj of a map with a numeric key
fromNumericKeys(entries) ==
  orElse(orElse(fromFirstEntries(entries, Len(entries)),
                fromKeysOrNested(entries, Len(entries))),
         fromSingleEntries(entries, Len(entries)))

\* lines 301-425: the relationships field (plural) once the singular field is read
pluralField(relationships) ==
  IF relationships.t = "array"
    THEN fromArray(relationships.v, Len(relationships.v))
  ELSE IF /\ relationships.t = "object"
          /\ \E i \in 1..Len(relationships.v) : isNumericKey(relationships.v[i].k)
    THEN orElse(fromNumericKeys(relationships.v), relationships)
  ELSE relationships

\* relationships[name], read for its truthiness (line 443)
hasTruthy(relationships, name) ==
  /\ relationships.t = "object"
  /\ ObjHas(relationships.v, name)
  /\ truthy(ObjGet(relationships.v, name))

\* forEach(([name, status]) => { if (!relationships[name]) relationships[name] = status })
RECURSIVE assignMissing(_, _, _)
assignMissing(relationships, entries, n) ==
  IF n = 0 THEN relationships
  ELSE IF hasTruthy(assignMissing(relationships, entries, n - 1), entries[n].k)
    THEN assignMissing(relationships, entries, n - 1)
    ELSE assignRelationship(assignMissing(relationships, entries, n - 1),
                            entries[n].k, entries[n].v)

\* lines 431-456: a singular string in braces is parsed as JSON and merged
jsonMerge(relationships, relationship) ==
  IF /\ relationship.t = "string"
     /\ relationship.s # ""
     /\ ~includesEscapedQuote(relationship.s)
     /\ isBraced(relationship.s)
    THEN assignMissing(relationships, entriesOf(jsonParse(relationship.s)),
                       Len(entriesOf(jsonParse(relationship.s))))
    ELSE relationships

\* relationship && typeof relationship === 'string' && relationship.includes('\\\"')
isUnrealFormat(relationship) ==
  /\ relationship.t = "string"
  /\ includesEscapedQuote(relationship.s)

\* lines 463-595: the Unreal Engine format read into the relationships
unrealLate(relationships, relationship) ==
  IF isUnrealFormat(relationship)
    THEN assignTruthy(relationships, unrealPairsLate(relationship.s),
                      Len(unrealPairsLate(relationship.s)))
    ELSE relationships

\* lines 597-599: delete enhancedData.relationship
relationshipKept(relationships, relationship) ==
  IF isUnrealFormat(relationship) /\ hasKeys(relationships)
    THEN Undefined
    ELSE relationship

\* lines 609-714: the inventory or the skills field
itemsField(value) ==
  IF value.t = "string" THEN Arr(splitItems(value.s))
  ELSE IF ~truthy(value) THEN Arr(<<>>)
  ELSE value

\* lines 71-73: the relationships field, an empty object when falsy
relationshipsOrEmpty(relationships) ==
  IF truthy(relationships) THEN relationships ELSE Obj(<<>>)

\* lines 76-607: the relationships of the stored metadata
finalRelationships(npcData) ==
  unrealLate(jsonMerge(pluralField(singularField(
                 relationshipsOrEmpty(npcData.relationships),
                 npcData.relationship)),
               npcData.relationship),
             npcData.relationship)

\* lines 57-714: enhancedData, the metadata that initializeNpc stores
enhancedData(npcData) ==
  [name |-> npcData.name,
   relationships |-> finalRelationships(npcData),
   relationship |-> relationshipKept(finalRelationships(npcData),
                                     npcData.relationship),
   inventory |-> itemsField(npcData.inventory),
   skills |-> itemsField(npcData.skills)]

\* findNpcByName(name) over metadata of any shape: the id of the first
\* stored entity of that name, compared in lower case (lines 878-889)
findIdByName(ctx, name) ==
  LET hits == {i \in 1..Len(ctx) :
                 toLowerCase(ctx[i].metadata.name.s) = toLowerCase(name)}
  IN IF hits = {} THEN <<>>
     ELSE <<ctx[CHOOSE j \in hits : \A k \in hits : j <= k].id>>

\* line 880, name.toLowerCase(): a TypeError when the name is absent or no string
nameThrows(npcData) == npcData.name.t # "string"

\* lines 34-50: the entity that holds the name is removed
withoutNamesake(ctx, name) ==
  IF findIdByName(ctx, name) # <<>>
    THEN removeNpc(ctx, findIdByName(ctx, name)[1])
    ELSE ctx

\* initializeNpc(npcData) on a payload of any shape whose name is a string:
\* the store afterwards, npcId being the new id
initializeShaped(ctx, npcId, npcData) ==
  Set(withoutNamesake(ctx, npcData.name.s), npcId,
      [id |-> npcId, metadata |-> enhancedData(npcData), conversations |-> <<>>])

\* initializeNpcs(npcsData) on payloads of any shape, from element k on: the
\* forEach stops at the first element whose name throws, the elements before
\* it stay registered
RECURSIVE initializeShapedFrom(_, _, _, _)
initializeShapedFrom(ctx, next, npcsData, k) ==
  IF k > Len(npcsData) THEN [ctx |-> ctx, next |-> next, threw |-> FALSE]
  ELSE IF nameThrows(npcsData[k]) THEN [ctx |-> ctx, next |-> next, threw |-> TRUE]
  ELSE initializeShapedFrom(initializeShaped(ctx, UUIDS[next], npcsData[k]),
                            next + 1, npcsData, k + 1)

\* POST /npc with a payload of any shape, and initializeNpc called directly
InitializeNpcShaped(npcData) ==
  /\ nextUuid <= MaxIds
  /\ IF nameThrows(npcData)
       THEN /\ result' = [op |-> "initializeNpc", args |-> <<npcData>>,
                          value |-> "TypeError"]
            /\ UNCHANGED <<npcContexts, nextUuid>>
       ELSE /\ npcContexts' = initializeShaped(npcContexts, UUIDS[nextUuid], npcData)
            /\ nextUuid' = nextUuid + 1
            /\ result' = [op |-> "initializeNpc", args |-> <<npcData>>,
                          value |-> UUIDS[nextUuid]]
  /\ UNCHANGED <<timers, turns>>

\* POST /npc/initialize with payloads of any shape: the route answers 500
\* when the forEach throws
InitializeNpcsShaped(npcsData) ==
  /\ nextUuid + Len(npcsData) - 1 <= MaxIds
  /\ npcContexts' = initializeShapedFrom(npcContexts, nextUuid, npcsData, 1).ctx
  /\ nextUuid' = initializeShapedFrom(npcContexts, nextUuid, npcsData, 1).next
  /\ result' = [op |-> "initializeNpcs", args |-> npcsData,
                value |-> IF initializeShapedFrom(npcContexts, nextUuid, npcsData, 1).threw
                            THEN "TypeError" ELSE "ok"]
  /\ UNCHANGED <<timers, turns>>

(***************************************************************************)
(* SpecNorm: registration with payloads of any shape.  Each payload varies *)
(* one field of a plain payload named Mayor: the relationships field, the  *)
(* singular relationship field (alone, and beside a plain relationships    *)
(* map), the inventory, the skills, the name.  A client also sends back    *)
(* the metadata of a stored entity as a payload, sends batches, updates    *)
(* the metadata and removes entities.                                      *)
(***************************************************************************)
Entry(k, v) == [k |-> k, v |-> v]

Friendly == Obj(<<Entry("Alfred", Str("Friendly"))>>)

PlainPayload ==
  [name |-> Str("Mayor"), relationships |-> Undefined, relationship |-> Undefined,
   inventory |-> Undefined, skills |-> Undefined]

PlainRelationships == Obj(<<Entry("Smith", Str("friend"))>>)

RelationshipsShapes ==
  {Null, Str(""), Str(ColonRelationship), Num(5),
   PlainRelationships,
   Obj(<<Entry("Smith", Num(5))>>),
   Obj(<<Entry("Smith", Friendly)>>),
   Arr(<<>>),
   Arr(<<Friendly>>),
   Arr(<<Str(ColonRelationship)>>),
   Arr(<<Str("Alfred")>>),
   Arr(<<Obj(<<Entry("Alfred", Num(5))>>)>>),
   Arr(<<Obj(<<Entry("0", Friendly)>>)>>),
   Obj(<<Entry("0", Friendly)>>),
   Obj(<<Entry("0", Friendly), Entry("1", Obj(<<Entry("Bob", Str("Hates"))>>))>>),
   Obj(<<Entry("0", Str("Alfred"))>>),
   Obj(<<Entry("0", Num(5))>>),
   Obj(<<Entry("0", Obj(<<Entry("Alfred", Str(""))>>))>>),
   Obj(<<Entry("0", Obj(<<Entry("1", Friendly)>>))>>)}

SingularShapes ==
  {Obj(<<Entry("type", Str("object")), Entry("value", Friendly)>>),
   Obj(<<Entry("type", Str("object")),
         Entry("value", Obj(<<Entry("Alfred", Num(5))>>))>>),
   Friendly,
   Obj(<<Entry("Alfred", Obj(<<Entry("Bob", Str("Hates"))>>))>>),
   Obj(<<Entry("Alfred", Num(5))>>),
   Arr(<<Str("Alfred")>>),
   Str(UnrealRelationship), Str(JsonRelationship), Str(ColonRelationship),
   Num(5)}

ItemShapes ==
  {Null, Str(""), Str("Sword"), Str("Sword,Shield"), Str("SwordShield"),
   Arr(<<Str("Sword")>>), Num(5), Obj(<<Entry("Sword", Num(1))>>)}

NameShapes == {Undefined, Num(5), Str("Smith")}

ShapedPayloads ==
  {PlainPayload}
    \cup {[PlainPayload EXCEPT !.relationships = r] : r \in RelationshipsShapes}
    \cup {[PlainPayload EXCEPT !.relationship = r] : r \in SingularShapes}
    \cup {[PlainPayload EXCEPT !.relationships = PlainRelationships,
                               !.relationship = r] : r \in SingularShapes}
    \cup {[PlainPayload EXCEPT !.inventory = i] : i \in ItemShapes}
    \cup {[PlainPayload EXCEPT !.skills = i] : i \in ItemShapes}
    \cup {[PlainPayload EXCEPT !.name = n] : n \in NameShapes}

ShapedBatches ==
  {<<PlainPayload, [PlainPayload EXCEPT !.name = n]>> : n \in NameShapes}
    \cup {<<[PlainPayload EXCEPT !.name = Undefined], PlainPayload>>}

ShapedUpdates == {[relationships |-> Arr(<<Friendly>>)], [inventory |-> Null]}

NextNorm ==
  \/ \E d \in ShapedPayloads : InitializeNpcShaped(d)
  \/ \E i \in 1..Len(npcContexts) : InitializeNpcShaped(npcContexts[i].metadata)
  \/ \E b \in ShapedBatches : InitializeNpcsShaped(b)
  \/ \E id \in IssuedIds, u \in ShapedUpdates : UpdateNpcMetadata(id, u)
  \/ \E id \in IssuedIds : RemoveNpc(id)

SpecNorm == Init /\ [][NextNorm]_vars

(***************************************************************************)
(* Claims on the store's lifecycle, checked under Spec.                    *)
(***************************************************************************)
\* C1: in every reachable state of the store no two stored entities have
\* names that are equal when compared case-insensitively.
C1_UniqueNames ==
  \A i, j \in 1..Len(npcContexts) :
    i # j => toLowerCase(npcContexts[i].metadata.name)
               # toLowerCase(npcContexts[j].metadata.name)

\* C2: after a call of initializeNpc with a name, no entity stored under
\* another id than the new one has that name, compared case-insensitively
\* (the id of every entity that had the name is gone from the store), and the
\* new entity's conversation list is empty.
C2_ReplacementInvalidatesOldId ==
  result.op = "initializeNpc"
    => /\ \A i \in 1..Len(npcContexts) :
            npcContexts[i].id # result.value
              => toLowerCase(npcContexts[i].metadata.name)
                   # toLowerCase(result.args[1])
       /\ Get(npcContexts, result.value).conversations = <<>>

(***************************************************************************)
(* Claims on the player_relationship record, checked under SpecPlayer.     *)
(***************************************************************************)
\* C10: in every reachable state every stored entity's player_relationship
\* record has the fields affinity, trust and respect.
C10_ScoresAlwaysPresent ==
  \A i \in 1..Len(npcContexts) :
    {"affinity", "trust", "respect"}
      \subseteq DOMAIN npcContexts[i].metadata.player_relationship

(***************************************************************************)
(* Claims on the relationship queries, checked under SpecRel.  The queries *)
(* are read in the current state of the store; result holds the last call. *)
(***************************************************************************)
\* the relationships object of the stored entity npcId
RelationshipsOf(npcId) == Get(npcContexts, npcId).metadata.relationships

NameOf(npcId) == Get(npcContexts, npcId).metadata.name

\* the names that are keys of both entities' relationships objects
CommonKeys(a, b) ==
  {RelationshipsOf(a)[k].name : k \in 1..Len(RelationshipsOf(a))}
    \cap {RelationshipsOf(b)[k].name : k \in 1..Len(RelationshipsOf(b))}

\* a name no stored entity has, compared case-insensitively
Unregistered(name) ==
  \A i \in 1..Len(npcContexts) :
    toLowerCase(npcContexts[i].metadata.name) # toLowerCase(name)

\* the entry for b in the discovery of a, both stored and distinct
EntryFor(a, b) ==
  LET d == discoverNpcRelationships(npcContexts, a).discovered_relationships
  IN d[CHOOSE k \in 1..Len(d) : d[k].npc_id = b]

\* C3: for any two stored entities A and B, getNpcRelationship(A, B).is_mutual
\* is true if and only if neither direction is reported as "none" and the two
\* reported labels are equal.
C3_MutualIffBothDefinedAndEqual ==
  \A a, b \in StoredIds(npcContexts) :
    a # b =>
      LET r == getNpcRelationship(npcContexts, a, b, TRUE)
      IN r.is_mutual <=> /\ r.npc1_to_npc2 # "none"
                         /\ r.npc2_to_npc1 # "none"
                         /\ r.npc1_to_npc2 = r.npc2_to_npc1

\* C4: for any two stored entities A and B,
\* getNpcRelationship(A, B).is_conflicting is true if and only if neither
\* direction is reported as "none" and the two reported labels are unequal.
C4_ConflictingIffBothDefinedAndUnequal ==
  \A a, b \in StoredIds(npcContexts) :
    a # b =>
      LET r == getNpcRelationship(npcContexts, a, b, TRUE)
      IN r.is_conflicting <=> /\ r.npc1_to_npc2 # "none"
                              /\ r.npc2_to_npc1 # "none"
                              /\ r.npc1_to_npc2 # r.npc2_to_npc1

\* C5: when the two-argument call getNpcRelationship(a, b) of the
\* relationship route has a side that resolves to no stored entity, its
\* result is an explicit not-found result that says which side was found, and
\* holds no labels and no mutual or conflicting flag.
C5_UnresolvedSideIsNotFound ==
  (/\ result.op = "getNpcRelationship"
   /\ \/ resolveNpc(npcContexts, result.args[1]) = <<>>
      \/ resolveNpc(npcContexts, result.args[2]) = <<>>)
    => /\ hasError(result.value)
       /\ {"npc1_found", "npc2_found"} \subseteq DOMAIN result.value
       /\ result.value.npc1_found = (resolveNpc(npcContexts, result.args[1]) # <<>>)
       /\ result.value.npc2_found = (resolveNpc(npcContexts, result.args[2]) # <<>>)
       /\ DOMAIN result.value
            \cap {"npc1_to_npc2", "npc2_to_npc1", "is_mutual", "is_conflicting"} = {}

\* C6: for stored entities A and B with a direct relationship (a direction of
\* getNpcRelationship(A, B) is not "none"), B's entry in
\* discoverNpcRelationships(A) has no indirect relationships and
\* getNpcRelationshipNetwork(A) has no indirect_relationships item for B.
C6_DirectExcludesIndirect ==
  \A a, b \in StoredIds(npcContexts) :
    (a # b /\ hasDirectRelationship(getNpcRelationship(npcContexts, a, b, TRUE)))
      => /\ EntryFor(a, b).indirect_relationships = <<>>
         /\ LET n == getNpcRelationshipNetwork(npcContexts, a)[1].indirect_relationships
            IN \A k \in 1..Len(n) : n[k].name # NameOf(b)

\* C6 happens: a discovery has run for an entity that has a direct
\* relationship with another one while both name a common target
C6_Witness ==
  /\ result.op = "discoverNpcRelationships"
  /\ result.value.status = "success"
  /\ \E b \in StoredIds(npcContexts) :
       /\ b # result.value.npc_id
       /\ hasDirectRelationship(
            getNpcRelationship(npcContexts, result.value.npc_id, b, TRUE))
       /\ CommonKeys(result.value.npc_id, b) # {}
       /\ \E k \in 1..Len(result.value.discovered_relationships) :
            /\ result.value.discovered_relationships[k].npc_id = b
            /\ result.value.discovered_relationships[k].direct_relationship # <<>>

\* C7: for stored entities A and B without a direct relationship, B's entry
\* in discoverNpcRelationships(A) holds exactly one triple for each name that
\* is a key of both relationships objects, with A's label for the name as
\* target_to_common and B's as other_to_common, and no other triple.
C7_IndirectTriplesAreCommonKeys ==
  \A a, b \in StoredIds(npcContexts) :
    (a # b /\ ~hasDirectRelationship(getNpcRelationship(npcContexts, a, b, TRUE)))
      => LET t == EntryFor(a, b).indirect_relationships
         IN /\ \A name \in CommonKeys(a, b) :
                 Cardinality({k \in 1..Len(t) : t[k].through = name}) = 1
            /\ \A k \in 1..Len(t) :
                 /\ t[k].through \in CommonKeys(a, b)
                 /\ t[k].target_to_common = RelGet(RelationshipsOf(a), t[k].through)
                 /\ t[k].other_to_common = RelGet(RelationshipsOf(b), t[k].through)

\* C7 happens: a discovery has returned an entry with an indirect triple
\* whose two labels differ
C7_Witness ==
  /\ result.op = "discoverNpcRelationships"
  /\ result.value.status = "success"
  /\ \E k \in 1..Len(result.value.discovered_relationships) :
       LET e == result.value.discovered_relationships[k]
       IN /\ e.direct_relationship = <<>>
          /\ e.indirect_relationships # <<>>
          /\ e.indirect_relationships[1].target_to_common
               # e.indirect_relationships[1].other_to_common
          /\ e.indirect_relationships = EntryFor(result.value.npc_id, e.npc_id).indirect_relationships

\* C8: for every stored entity A and every key n of A's relationships that
\* is the name of no stored entity, getNpcRelationshipNetwork(A) has an item
\* for n in future_relationships, marked as future, and
\* discoverAllNpcRelationships counts it in total_future_relationships.
C8_FutureEdgesReported ==
  \A a \in StoredIds(npcContexts) :
    \A k \in 1..Len(RelationshipsOf(a)) :
      Unregistered(RelationshipsOf(a)[k].name)
        => /\ LET f == getNpcRelationshipNetwork(npcContexts, a)[1].future_relationships
              IN \E m \in 1..Len(f) : /\ f[m].name = RelationshipsOf(a)[k].name
                                      /\ f[m].is_future
           /\ discoverAllNpcRelationships(npcContexts).total_future_relationships >= 1

\* C9: in discoverNpcRelationships(A) and getNpcRelationshipNetwork(A) every
\* entry of the direct bucket is that of a stored entity, under its name.
C9_DirectEntriesAreStored ==
  \A a \in StoredIds(npcContexts) :
    /\ LET d == discoverNpcRelationships(npcContexts, a).discovered_relationships
       IN \A k \in 1..Len(d) :
            d[k].direct_relationship # <<>>
              => /\ Has(npcContexts, d[k].npc_id)
                 /\ NameOf(d[k].npc_id) = d[k].npc_name
    /\ LET n == getNpcRelationshipNetwork(npcContexts, a)[1].direct_relationships
       IN \A k \in 1..Len(n) :
            /\ ~n[k].is_future
            /\ \E i \in 1..Len(npcContexts) : npcContexts[i].metadata.name = n[k].name

\* C9 happens: a network has been built, with a direct item, for an entity
\* that has an edge to a name no stored entity has
C9_Witness ==
  /\ result.op = "getNpcRelationshipNetwork"
  /\ result.value # <<>>
  /\ result.value[1].direct_relationships # <<>>
  /\ Has(npcContexts, result.args[1])
  /\ \E k \in 1..Len(RelationshipsOf(result.args[1])) :
       Unregistered(RelationshipsOf(result.args[1])[k].name)

(***************************************************************************)
(* Claims on the conversation lists and on unknown ids, checked under      *)
(* Spec.                                                                   *)
(***************************************************************************)
\* the list before is a prefix of the list after
isPrefix(before, after) ==
  /\ Len(before) <= Len(after)
  /\ \A k \in 1..Len(before) : after[k] = before[k]

\* C15: across every operation that keeps an id alive, the conversation
\* list of the id before the operation is a prefix of its list afterwards,
\* and addMessage adds exactly one entry at the end.
C15_ConversationsAreAppendOnly ==
  [][/\ \A i \in 1..Len(npcContexts) :
          Has(npcContexts', npcContexts[i].id)
            => isPrefix(npcContexts[i].conversations,
                        Get(npcContexts', npcContexts[i].id).conversations)
     /\ (result'.op = "addMessage" /\ result'.value)
          => Len(Get(npcContexts', result'.args[1]).conversations)
               = Len(Get(npcContexts, result'.args[1]).conversations) + 1]_vars

\* the calls that take the id of an NPC and answer false, or null, when the
\* store does not hold it
CallsById ==
  {"addMessage", "updateNpcMetadata", "updateNpcRelationship",
   "clearConversationHistory", "removeNpc", "getConversationHistory"}

\* C16: addMessage, updateNpcMetadata, updateNpcRelationship,
\* clearConversationHistory, removeNpc and getConversationHistory, called
\* with an id that is not in the store, return false (null for
\* getConversationHistory) and leave the store unchanged.
C16_UnknownIdIsNotFound ==
  [][(result'.op \in CallsById /\ ~Has(npcContexts, result'.args[1]))
       => /\ npcContexts' = npcContexts
          /\ IF result'.op = "getConversationHistory"
               THEN result'.value = <<>>
               ELSE result'.value = FALSE]_vars

\* addMessage has answered false for the id of a removed NPC while another
\* NPC is stored
C16_Witness ==
  /\ result.op = "addMessage"
  /\ ~result.value
  /\ ~Has(npcContexts, result.args[1])
  /\ npcContexts # <<>>

(***************************************************************************)
(* Claims on the metadata update, checked under SpecPlayer.                *)
(***************************************************************************)
\* the store after differs from the store before in the metadata of npcId
\* alone, where exactly the keys of updates took the values of updates
onlyKeysSet(before, after, npcId, updates) ==
  /\ getAllNpcIds(after) = getAllNpcIds(before)
  /\ \A i \in 1..Len(before) : before[i].id # npcId => after[i] = before[i]
  /\ Get(after, npcId).conversations = Get(before, npcId).conversations
  /\ DOMAIN Get(after, npcId).metadata
       = (DOMAIN Get(before, npcId).metadata) \cup (DOMAIN updates)
  /\ \A k \in DOMAIN Get(after, npcId).metadata :
       Get(after, npcId).metadata[k]
         = IF k \in DOMAIN updates THEN updates[k]
           ELSE Get(before, npcId).metadata[k]

\* C14: updateNpcMetadata(id, partial) on a stored id sets exactly the
\* top-level keys of partial and leaves every other key of the metadata
\* (relationships included), the conversations and every other entity as
\* they were.
C14_UpdateSetsExactlyTheGivenKeys ==
  [][(result'.op = "updateNpcMetadata" /\ result'.value)
       => \E u \in PlayerUpdates :
            onlyKeysSet(npcContexts, npcContexts', result'.args[1], u)]_vars

\* an update has set the description of an NPC that has a relationship,
\* beside a second NPC
C14_Witness ==
  /\ result.op = "updateNpcMetadata"
  /\ result.value
  /\ Len(npcContexts) >= 2
  /\ "description" \in DOMAIN Get(npcContexts, result.args[1]).metadata
  /\ Get(npcContexts, result.args[1]).metadata.relationships # <<>>

\* the store after differs from the store before in the metadata of the NPC
\* npcId at most, and there in the relationships at most
onlyRelationshipsOf(before, after, npcId) ==
  /\ Len(after) = Len(before)
  /\ \A i \in 1..Len(before) :
       /\ after[i].id = before[i].id
       /\ after[i].conversations = before[i].conversations
       /\ before[i].id # npcId => after[i] = before[i]
       /\ \A k \in (DOMAIN before[i].metadata) \ {"relationships"} :
            /\ k \in DOMAIN after[i].metadata
            /\ after[i].metadata[k] = before[i].metadata[k]
       /\ DOMAIN after[i].metadata
            \subseteq (DOMAIN before[i].metadata) \cup {"relationships"}

\* the relationships after are the relationships before with the label of
\* name set and every other edge as it was
onlyEdgeSet(before, after, name, label) ==
  /\ RelGet(after, name) = label
  /\ {after[k].name : k \in 1..Len(after)}
       = {before[k].name : k \in 1..Len(before)} \cup {name}
  /\ \A k \in 1..Len(before) :
       before[k].name # name => RelGet(after, before[k].name) = before[k].label

\* C24: updateNpcRelationship(A, target, label) on a stored id A returns
\* true, be the target the name of a stored NPC or not, sets the edge of A
\* keyed by the target's name to label, and leaves A's other edges, A's
\* conversation list and every other NPC, the target among them, unchanged.
C24_UpdateSetsOneEdgeOnly ==
  [][(result'.op = "updateNpcRelationship" /\ Has(npcContexts, result'.args[1]))
       => /\ result'.value = TRUE
          /\ onlyRelationshipsOf(npcContexts, npcContexts', result'.args[1])
          /\ onlyEdgeSet(Get(npcContexts, result'.args[1]).metadata.relationships,
                         Get(npcContexts', result'.args[1]).metadata.relationships,
                         npc2NameOf(npcContexts, result'.args[2]),
                         result'.args[3])]_vars

\* an edge to Ghost, the name of no stored NPC, has been set on an NPC that
\* holds a message and another edge, while a second NPC is stored
C24_Witness ==
  /\ result.op = "updateNpcRelationship"
  /\ result.value = TRUE
  /\ result.args[2] = "Ghost"
  /\ findNpcByName(npcContexts, "Ghost") = <<>>
  /\ Len(npcContexts) = 2
  /\ Get(npcContexts, result.args[1]).conversations # <<>>
  /\ Len(Get(npcContexts, result.args[1]).metadata.relationships) = 2

\* an edge to a stored NPC has been set and that NPC has an edge of its own
C24_WitnessStoredTarget ==
  /\ result.op = "updateNpcRelationship"
  /\ result.value = TRUE
  /\ findNpcByName(npcContexts, result.args[2]) # <<>>
  /\ findNpcByName(npcContexts, result.args[2])[1].id # result.args[1]
  /\ findNpcByName(npcContexts, result.args[2])[1].relationships # <<>>

(***************************************************************************)
(* Claims on the read-only calls, checked under SpecRel.                   *)
(***************************************************************************)
\* the calls that read the store: the four queries and the log, on demand
\* and from the two timers
ReadOnlyOps ==
  {"getNpcRelationship", "discoverNpcRelationships", "getNpcRelationshipNetwork",
   "discoverAllNpcRelationships", "logAllNpcData", "periodicLogging",
   "autoRelationshipDiscovery"}

\* C12: getNpcRelationship, discoverNpcRelationships,
\* getNpcRelationshipNetwork, discoverAllNpcRelationships and logAllNpcData,
\* on demand or from a timer, leave the store as it was: the same ids, and
\* for each the same metadata, relationships and conversations.
C12_ReadOnlyCallsLeaveStoreUnchanged ==
  [][result'.op \in ReadOnlyOps => npcContexts' = npcContexts]_vars

\* a timer has run the discovery over a store of two NPCs, one of which has
\* relationships
C12_Witness ==
  /\ result.op = "autoRelationshipDiscovery"
  /\ Len(npcContexts) >= 2
  /\ \E i \in 1..Len(npcContexts) : npcContexts[i].metadata.relationships # <<>>

\* the entries of discovered whose direct_relationship is not null
directEntries(discovered) ==
  {k \in 1..Len(discovered) : discovered[k].direct_relationship # <<>>}

C21_WitnessIndirect ==
  /\ result.op = "discoverNpcRelationships"
  /\ result.value.status = "success"
  /\ result.value.stats.direct_relationships = 0
  /\ result.value.stats.indirect_relationships = 1

\* C25: a result of getNpcRelationship never has is_mutual and
\* is_conflicting both true, and when npc1_to_npc2 and npc2_to_npc1 are both
\* "none" both flags are false.
C25_FlagsAgreeWithLabels ==
  (result.op = "getNpcRelationship" /\ ~hasError(result.value))
    => /\ ~(result.value.is_mutual /\ result.value.is_conflicting)
       /\ (result.value.npc1_to_npc2 = "none" /\ result.value.npc2_to_npc1 = "none")
            => (~result.value.is_mutual /\ ~result.value.is_conflicting)

\* the names the triples of an entry go through
throughNames(entry) ==
  {entry.indirect_relationships[k].through :
     k \in 1..Len(entry.indirect_relationships)}

\* the entry ab for B in the discovery of A mirrors the entry ba for A in the
\* discovery of B
entriesMirror(ab, ba) ==
  /\ (ab.direct_relationship # <<>>) <=> (ba.direct_relationship # <<>>)
  /\ ab.direct_relationship # <<>>
       => /\ ab.direct_relationship[1].target_to_other
               = ba.direct_relationship[1].other_to_target
          /\ ab.direct_relationship[1].other_to_target
               = ba.direct_relationship[1].target_to_other
          /\ ab.direct_relationship[1].is_mutual
               = ba.direct_relationship[1].is_mutual
          /\ ab.direct_relationship[1].is_conflicting
               = ba.direct_relationship[1].is_conflicting
  /\ throughNames(ab) = throughNames(ba)

\* C26: for any two stored NPCs A and B, B's entry in
\* discoverNpcRelationships(A) is direct exactly when A's entry in
\* discoverNpcRelationships(B) is, with the two labels exchanged and the same
\* flags, and the two entries have triples through the same names; and the
\* direct, indirect, mutual and conflicting totals of
\* discoverAllNpcRelationships are even.
C26_DiscoveryIsSymmetric ==
  /\ \A a, b \in StoredIds(npcContexts) :
       a # b => entriesMirror(EntryFor(a, b), EntryFor(b, a))
  /\ result.op = "discoverAllNpcRelationships"
       => \A kind \in {"direct", "indirect", "mutual", "conflicting"} :
            result.value["total_" \o kind \o "_relationships"] % 2 = 0

\* a pass over two stored NPCs, one of which names the other with a label and
\* is not named back, has counted the pair twice
C26_Witness ==
  /\ result.op = "discoverAllNpcRelationships"
  /\ result.value.total_direct_relationships = 2
  /\ \E a, b \in StoredIds(npcContexts) :
       /\ a # b
       /\ EntryFor(a, b).direct_relationship # <<>>
       /\ EntryFor(a, b).direct_relationship[1].target_to_other # "none"
       /\ EntryFor(a, b).direct_relationship[1].other_to_target = "none"

\* the entry for b in the discovery of a in the store ctx, both stored
entryIn(ctx, a, b) ==
  LET d == discoverNpcRelationships(ctx, a).discovered_relationships
  IN d[CHOOSE k \in 1..Len(d) : d[k].npc_id = b]

\* in the store ctx the NPC a is reported to have a direct relationship to
\* the NPC b, by getNpcRelationship and by discoverNpcRelationships
reportedDirect(ctx, a, b) ==
  /\ getNpcRelationship(ctx, a, b, TRUE).npc1_to_npc2 # "none"
  /\ entryIn(ctx, a, b).direct_relationship # <<>>
  /\ entryIn(ctx, a, b).direct_relationship[1].target_to_other # "none"

\* the NPC entry has an edge to the name n, compared in lower case
edgesTo(entry, n) ==
  {k \in 1..Len(entry.metadata.relationships) :
     toLowerCase(entry.metadata.relationships[k].name) = toLowerCase(n)}

\* C23: removeNpc and initializeNpc leave the relationships of every NPC
\* that stays stored unchanged; and when initializeNpc registers an NPC named
\* n, every NPC that already had an edge to n, compared in lower case, is
\* reported by getNpcRelationship and discoverNpcRelationships to have a
\* direct relationship to the new NPC.
C23_EdgesResolveByNameAtQueryTime ==
  [][/\ result'.op \in {"removeNpc", "initializeNpc"}
          => \A i \in 1..Len(npcContexts) :
               Has(npcContexts', npcContexts[i].id)
                 => Get(npcContexts', npcContexts[i].id).metadata.relationships
                      = npcContexts[i].metadata.relationships
     /\ result'.op = "initializeNpc"
          => \A i \in 1..Len(npcContexts) :
               (/\ Has(npcContexts', npcContexts[i].id)
                /\ edgesTo(npcContexts[i], result'.args[1]) # {})
                 => reportedDirect(npcContexts', npcContexts[i].id, result'.value)]_vars

\* the single-entity count of one kind for a stored NPC: a counter of the
\* stats of discoverNpcRelationships, or the length of the
\* future_relationships of getNpcRelationshipNetwork
singleEntityCount(ctx, npcId, kind) ==
  IF kind = "future"
    THEN Len(getNpcRelationshipNetwork(ctx, npcId)[1].future_relationships)
    ELSE discoverNpcRelationships(ctx, npcId).stats[kind \o "_relationships"]

\* the sum of the single-entity counts of one kind over the first n NPCs
RECURSIVE sumOfCounts(_, _, _)
sumOfCounts(ctx, n, kind) ==
  IF n = 0 THEN 0
  ELSE sumOfCounts(ctx, n - 1, kind) + singleEntityCount(ctx, ctx[n].id, kind)

CountKinds == {"direct", "indirect", "future", "mutual", "conflicting"}

\* C18: the result of discoverAllNpcRelationships has, for each of direct,
\* indirect, future, mutual and conflicting, a total equal to the sum of the
\* single-entity counts over the stored NPCs, and successful_discoveries +
\* failed_discoveries = total_npcs = the number of stored NPCs.
C18_TotalsAreSumsOverStoredNpcs ==
  result.op = "discoverAllNpcRelationships"
    => /\ \A kind \in CountKinds :
            result.value["total_" \o kind \o "_relationships"]
              = sumOfCounts(npcContexts, Len(npcContexts), kind)
       /\ result.value.total_npcs = Len(npcContexts)
       /\ result.value.successful_discoveries + result.value.failed_discoveries
            = result.value.total_npcs

\* a pass over two stored NPCs that found direct and mutual relationships
C18_Witness ==
  /\ result.op = "discoverAllNpcRelationships"
  /\ result.value.total_npcs = 2
  /\ result.value.total_direct_relationships = 2
  /\ result.value.total_mutual_relationships > 0

(***************************************************************************)
(* Claims on payloads of any shape, checked under SpecNorm.                *)
(***************************************************************************)
\* a flat map whose values are all strings
isFlatStringMap(x) ==
  /\ x.t = "object"
  /\ \A i \in 1..Len(x.v) : x.v[i].v.t = "string"

\* C11: in every reachable state the relationships field of every stored
\* entity is a flat map whose values are all strings, whatever shape the
\* registration payload had and whatever updates followed.
C11_RelationshipsAreFlatStringMaps ==
  \A i \in 1..Len(npcContexts) :
    isFlatStringMap(npcContexts[i].metadata.relationships)

\* the metadata objects that initializeNpc stores for the payloads
StoredShapes == {enhancedData(p) : p \in {q \in ShapedPayloads : ~nameThrows(q)}}

\* C19: when the metadata that initializeNpc stored for a payload is the
\* payload of a second initializeNpc, the metadata stored the second time
\* has the same relationships, inventory and skills.
C19_NormalizationIsIdempotent ==
  (/\ result.op = "initializeNpc"
   /\ result.value # "TypeError"
   /\ result.args[1] \in StoredShapes)
    => /\ Get(npcContexts, result.value).metadata.relationships
            = result.args[1].relationships
       /\ Get(npcContexts, result.value).metadata.inventory
            = result.args[1].inventory
       /\ Get(npcContexts, result.value).metadata.skills
            = result.args[1].skills

\* C20: registration does not fail on the shape of the payload: initializeNpc
\* returns the id of an entity it stored, whose relationships are a map and
\* whose inventory and skills are lists, and initializeNpcs registers every
\* element of its batch.
C20_RegistrationNeverFails ==
  /\ result.op = "initializeNpc"
       => /\ result.value # "TypeError"
          /\ Has(npcContexts, result.value)
          /\ Get(npcContexts, result.value).metadata.relationships.t = "object"
          /\ Get(npcContexts, result.value).metadata.inventory.t = "array"
          /\ Get(npcContexts, result.value).metadata.skills.t = "array"
  /\ result.op = "initializeNpcs"
       => /\ result.value # "TypeError"
          /\ \A k \in 1..Len(result.args) :
               findIdByName(npcContexts, result.args[k].name.s) # <<>>

\* initializeNpc read at least one pair of the singular field of npcData
\* into the relationships: without the field they would be others
foldsSingular(npcData) ==
  /\ truthy(npcData.relationship)
  /\ finalRelationships(npcData)
       # finalRelationships([npcData EXCEPT !.relationship = Undefined])

\* C22: when initializeNpc has read at least one pair of the singular field
\* relationship into relationships, be the field an object, a string with
\* escaped quotes, a delimited string or the string of a JSON object, the
\* metadata it stored has no relationship field.
C22_FoldedSingularIsDeleted ==
  (/\ result.op = "initializeNpc"
   /\ result.value # "TypeError"
   /\ foldsSingular(result.args[1]))
    => Get(npcContexts, result.value).metadata.relationship = Undefined

(***************************************************************************)
(* Claims on the chat turns, checked under SpecChat.                       *)
(***************************************************************************)
\* turn t has just answered with a reply, after the turn o that overlapped
\* with it on the same NPC answered with a reply, and the NPC is stored
lastOfOverlapped(t, o) ==
  /\ result.op = "chat"
  /\ result.args[1] = t
  /\ turns[t].reply # ""
  /\ turns[t].overlapped
  /\ turns[o].pc = "done"
  /\ turns[o].reply # ""
  /\ turns[o].npcId = turns[t].npcId
  /\ Has(npcContexts, turns[t].npcId)

\* the relationship key name is among targets
isTarget(targets, name) == \E j \in 1..Len(targets) : targets[j].name = name

\* C17: when two chat turns on the same NPC overlap and both answer, both
\* have made their writes without an error (status 200, both replies are in
\* the conversation list), and every metadata key and every relationship key
\* that both turns wrote holds the value written by the turn that answered
\* last.
C17_LastWriteWins ==
  \A t \in TurnIds : \A o \in TurnIds \ {t} :
    lastOfOverlapped(t, o)
      => /\ result.value = 200
         /\ turns[o].status = 200
         /\ \E i \in 1..Len(Get(npcContexts, turns[t].npcId).conversations) :
              Get(npcContexts, turns[t].npcId).conversations[i]
                = [role |-> "npc", content |-> turns[o].reply]
         /\ Get(npcContexts, turns[t].npcId).conversations[
              Len(Get(npcContexts, turns[t].npcId).conversations)]
              = [role |-> "npc", content |-> turns[t].reply]
         /\ \A k \in (DOMAIN turns[t].wrote) \cap (DOMAIN turns[o].wrote) :
              Get(npcContexts, turns[t].npcId).metadata[k] = turns[t].wrote[k]
         /\ \A i \in 1..Len(turns[t].targets) :
              isTarget(turns[o].targets, turns[t].targets[i].name)
                => RelGet(Get(npcContexts, turns[t].npcId).metadata.relationships,
                          turns[t].targets[i].name)
                     = turns[t].targets[i].label

\* two overlapping turns have answered with different moods and different
\* labels for the same relationship key
C17_Witness ==
  \E t \in TurnIds : \E o \in TurnIds \ {t} :
    /\ lastOfOverlapped(t, o)
    /\ "mood" \in (DOMAIN turns[t].wrote) \cap (DOMAIN turns[o].wrote)
    /\ turns[t].wrote.mood # turns[o].wrote.mood
    /\ turns[t].targets # <<>>
    /\ turns[o].targets # <<>>
    /\ turns[t].targets[1].name = turns[o].targets[1].name
    /\ turns[t].targets[1].label # turns[o].targets[1].label

\* the ids generated after the turn t read its NPC
issuedSince(t) == {UUIDS[i] : i \in (turns[t].issued + 1)..(nextUuid - 1)}

\* the NPC of the awaiting turn t was removed, or an NPC of its name was
\* registered, after the turn read it
removedOrReplaced(t) ==
  /\ turns[t].pc = "awaiting"
  /\ \/ ~Has(npcContexts, turns[t].npcId)
     \/ \E i \in 1..Len(npcContexts) :
          /\ npcContexts[i].id \in issuedSince(t)
          /\ toLowerCase(npcContexts[i].metadata.name)
               = toLowerCase(turns[t].snapshot[1].name)

\* C27: an id enters the store only in a registration, and is then a new id;
\* and when the NPC of a chat turn was removed or replaced by a namesake
\* while the turn awaited the language model, the writes of the turn after
\* the call change nothing in the store.
C27_OldIdIsNotWrittenAfterReplacement ==
  [][/\ StoredIds(npcContexts') \ StoredIds(npcContexts) # {}
          => /\ result'.op \in {"initializeNpc", "initializeNpcs"}
             /\ (StoredIds(npcContexts') \ StoredIds(npcContexts)) \cap IssuedIds = {}
     /\ (result'.op = "chat" /\ removedOrReplaced(result'.args[1]))
          => npcContexts' = npcContexts]_vars

\* the turn t has just ended without a reply: the call of the language model
\* failed, or its answer holds no reply
endedWithoutReply(t) ==
  /\ result.op = "chat"
  /\ result.args[1] = t
  /\ (result.value = 500 \/ turns[t].reply = "")

\* C28: a chat turn appends the player's message to the conversation list of
\* its NPC before it calls the language model; when the call fails or the
\* answer has no reply, the turn changes nothing in the store, so it stores
\* no npc message and no metadata, and the player's message stays.
C28_FailedTurnKeepsThePlayerMessage ==
  [][/\ (result'.op = "chatRequest" /\ result'.value = 0)
          => /\ Has(npcContexts, turns'[result'.args[1]].npcId)
             /\ npcContexts' =
                  addMessage(npcContexts, turns'[result'.args[1]].npcId,
                             "player", "Hello")
             /\ Get(npcContexts', turns'[result'.args[1]].npcId).conversations
                  = Append(Get(npcContexts, turns'[result'.args[1]].npcId).conversations,
                           [role |-> "player", content |-> "Hello"])
     /\ (result'.op = "chat"
           /\ (result'.value = 500 \/ turns'[result'.args[1]].reply = ""))
          => /\ npcContexts' = npcContexts
             /\ Has(npcContexts', result'.args[2])
                  => \E i \in 1..Len(Get(npcContexts', result'.args[2]).conversations) :
                       Get(npcContexts', result'.args[2]).conversations[i]
                         = [role |-> "player", content |-> "Hello"]]_vars

\* a turn whose call failed has ended and the last message of its NPC is the
\* player's
C28_Witness ==
  \E t \in TurnIds :
    /\ endedWithoutReply(t)
    /\ result.value = 500
    /\ Has(npcContexts, turns[t].npcId)
    /\ Get(npcContexts, turns[t].npcId).conversations
         = <<[role |-> "player", content |-> "Hello"]>>

\* a turn whose answer held a metadata and no reply has ended, and the
\* metadata of its NPC is the one the turn read
C28_WitnessNoReply ==
  \E t \in TurnIds :
    /\ endedWithoutReply(t)
    /\ result.value = 200
    /\ Has(npcContexts, turns[t].npcId)
    /\ Get(npcContexts, turns[t].npcId).metadata = turns[t].snapshot[1]

\* the turns that have appended a player message to the list of npcId
turnsOn(npcId) == {t \in TurnIds : turns[t].pc # "idle" /\ turns[t].npcId = npcId}

\* the places of the list of npcId where a turn has appended a message
placesOn(npcId) ==
  {turns[t].playerAt : t \in turnsOn(npcId)}
    \cup {turns[t].replyAt : t \in {u \in turnsOn(npcId) : turns[u].replyAt > 0}}

\* the number of messages the turns have appended to the list of npcId
appendedOn(npcId) ==
  Cardinality(turnsOn(npcId))
    + Cardinality({t \in turnsOn(npcId) : turns[t].replyAt > 0})

\* C29: while the NPC of chat turns stays stored, however the turns
\* interleave, each message a turn appended is in the conversation list
\* once, at a place of its own, the list holds nothing else, and the
\* player's message of a turn comes before the npc reply of that turn.
C29_EachMessageOnceAndInOrder ==
  \A i \in 1..Len(npcContexts) :
    /\ \A t \in turnsOn(npcContexts[i].id) :
         /\ turns[t].playerAt \in 1..Len(npcContexts[i].conversations)
         /\ npcContexts[i].conversations[turns[t].playerAt]
              = [role |-> "player", content |-> "Hello"]
         /\ (turns[t].pc = "done" /\ turns[t].status = 200 /\ turns[t].reply # "")
              => /\ turns[t].replyAt \in 1..Len(npcContexts[i].conversations)
                 /\ npcContexts[i].conversations[turns[t].replyAt]
                      = [role |-> "npc", content |-> turns[t].reply]
                 /\ turns[t].playerAt < turns[t].replyAt
    /\ Cardinality(placesOn(npcContexts[i].id)) = appendedOn(npcContexts[i].id)
    /\ Len(npcContexts[i].conversations) = appendedOn(npcContexts[i].id)

\* two turns on the same NPC have both replied, the second having started
\* before the first replied
C29_Witness ==
  \E i \in 1..Len(npcContexts) :
    /\ turnsOn(npcContexts[i].id) = TurnIds
    /\ Len(npcContexts[i].conversations) = 4
    /\ \A t \in TurnIds : turns[t].overlapped /\ turns[t].replyAt > 0

C13_FailedRunKeepsJobsScheduled ==
  result.op = "uncaughtException" => timers = Jobs

====
